---- MODULE Spec2Model ----
(***************************************************************************)
(* Model of svsfunc's BDMV / MPLS subsystem (src/svsfunc/bdmv.py).         *)
(*                                                                         *)
(* MplsFile.parse is modelled statement by statement as a state machine:   *)
(* the two ensure_path calls, the `with` block that decodes the play-item  *)
(* table and the mark table, one action per iteration of the per-item      *)
(* loop, and the final return.  What the external decoder (pyparsebluray)  *)
(* hands back and what the file system holds are the inputs.               *)
(*                                                                         *)
(* Python's Optional values are modelled as sequences of length <= 1:      *)
(* None is << >> and a present value v is << v >>.                         *)
(***************************************************************************)
EXTENDS Integers, Sequences, FiniteSets, TLC

VARIABLES
    pc,          \* position of MplsFile.parse
    fs,          \* what exists on disk: the playlist file, the STREAM folder, its files
    fileOpen,    \* the handle of `with mpls_file.open('rb') as file`
    items,       \* mpls.load_playlist(file).play_items
    marks,       \* mpls.load_playlist_mark(file).playlist_marks
    i,           \* enumerate index of the per-item loop (0-based, as in the code)
    mpls_items,  \* the local list mpls_items
    result,      \* what the call returned, None while nothing was returned
    err,         \* the exception that left the call, None while none did
    vpc,         \* position of BdVolume.from_path
    vol,         \* the candidate volume folder on disk
    vresult,     \* the BdVolume returned, None while nothing was returned
    verr,        \* the exception that left BdVolume.from_path
    gpc,         \* position of BdVolume.get_playlist
    mpls_dir,    \* the names of the .mpls files in the volume's PLAYLIST folder
    playlist_idx, \* the argument playlist_idx
    files,       \* the local list files
    gresult,     \* what get_playlist returned, None while nothing was returned
    gerr,        \* the exception that left get_playlist
    bpc,         \* position of BDMV.from_path or BDMV.from_volumes
    ondisk,      \* the directories and files on disk, by absolute path
    order,       \* the order in which iterdir() yields the entry names
    bargs,       \* the arguments of the call
    subdirs,     \* the local list subdirs of BDMV.from_path
    bk,          \* how many elements of subdirs the comprehension has visited
    bd_volumes,  \* the volumes collected so far (bd_volumes / volumes)
    bresult,     \* the BDMV returned, None while nothing was returned
    berr,        \* the exception that left the call
    listed,      \* the directories _find_bd_volume has listed, in order
    tpc,         \* position of MplsItem.chapters_timestamp
    self_item,   \* the MplsItem the method is called on
    precison,    \* the argument precison
    tresult,     \* the list returned, None while nothing was returned
    terr,        \* the exception that left chapters_timestamp
    ppc,         \* position of ParseBD.__init__
    ep_playlist, \* the argument ep_playlist, then the normalized list
    bd_items,    \* self.items of a ParseBD
    pk,          \* how many volumes the playlist loop has read
    episodes,    \* self.episodes
    episode_number, \* self.episode_number
    op_ranges,   \* self.op_ranges
    ed_ranges,   \* self.ed_ranges
    _ncops,      \* self._ncops
    _nceds,      \* self._nceds
    _ep_cache,   \* HasEpisode._ep_cache
    mcall,       \* the last method called on the parser, with its arguments
    mresult,     \* what that call returned
    perr,        \* the exception that left the constructor or that call
    _idx,        \* self._idx, which reads HasEpisode._idx until it is assigned
    receiver,    \* which of two parsers the attributes above belong to
    parked,      \* the attributes of the other parser, None if there is none
    fpc,         \* position of a `for` loop over the parser
    yielded,     \* what that loop has been handed so far
    loops        \* how many `for` loops were started

parseVars == <<pc, fs, fileOpen, items, marks, i, mpls_items, result, err>>
volVars == <<vpc, vol, vresult, verr>>
playlistVars == <<gpc, mpls_dir, playlist_idx, files, gresult, gerr>>
\* The variables of the operations other than MplsFile.parse and
\* BdVolume.from_path.
bdmvVars == <<bpc, ondisk, order, bargs, subdirs, bk, bd_volumes, bresult, berr,
              listed>>
stampVars == <<tpc, self_item, precison, tresult, terr>>
parserVars == <<ppc, ep_playlist, bd_items, pk, episodes, episode_number,
                op_ranges, ed_ranges, _ncops, _nceds, _ep_cache, mcall, mresult,
                perr, _idx, receiver, parked, fpc, yielded, loops>>
\* What the calls on one parser other than iteration leave alone.
iterVars == <<_idx, receiver, parked, fpc, yielded, loops>>
laterVars == <<playlistVars, bdmvVars, stampVars, parserVars>>
\* What the actions of one operation leave alone.
exceptPlaylist == <<parseVars, volVars, bdmvVars, stampVars, parserVars>>
exceptBdmv == <<parseVars, volVars, playlistVars, stampVars, parserVars>>
exceptStamp == <<parseVars, volVars, playlistVars, bdmvVars, parserVars>>
exceptParser == <<parseVars, volVars, playlistVars, bdmvVars, stampVars>>
vars == <<pc, fs, fileOpen, items, marks, i, mpls_items, result, err,
          vpc, vol, vresult, verr,
          gpc, mpls_dir, playlist_idx, files, gresult, gerr,
          bpc, ondisk, order, bargs, subdirs, bk, bd_volumes, bresult, berr,
          listed,
          tpc, self_item, precison, tresult, terr,
          ppc, ep_playlist, bd_items, pk, episodes, episode_number, op_ranges,
          ed_ranges, _ncops, _nceds, _ep_cache, mcall, mresult, perr,
          _idx, receiver, parked, fpc, yielded, loops>>

----------------------------------------------------------------------------
(* Optional values *)

None == << >>
Some(v) == << v >>
Val(o) == o[1]

\* Python truthiness of an Optional[str]: None and "" are falsy.
TruthyStr(o) == o # None /\ Val(o) # ""

\* str() of an Optional[str] inside an f-string: None renders as "None".
FormatStr(o) == IF o = None THEN "None" ELSE Val(o)

----------------------------------------------------------------------------
(* Bounds of the model *)

MaxItems == 2
MaxMarks == 1
MaxOrderMarks == 3
MaxChapterMarks == 3

\* 45 kHz playlist ticks per second, the divisor of the chapter conversion.
TicksPerSecond == 45000

----------------------------------------------------------------------------
(* Exceptions.  An exception is its Python type and the text that tells    *)
(* the raise statements of bdmv.py and utils.py apart.                     *)

ErrPathMissing == [type |-> "ValueError", msg |-> "path does not exist"]
ErrNoPlayItems == [type |-> "ValueError", msg |-> "does not have play items"]
ErrNoMarks == [type |-> "ValueError", msg |-> "does not have playlist marks"]
ErrNoMedia == [type |-> "ValueError", msg |-> "Could not locate file of item"]
ErrNoIntime == [type |-> "ValueError", msg |-> "Could not locate intime of item"]
ErrNoFramerate ==
    [type |-> "ValueError", msg |-> "Could not locate video stream framerate of item"]
ErrUnknownFramerate == [type |-> "ValueError", msg |-> "Unknown framerate"]
ErrInvalidVolume ==
    [type |-> "ValueError", msg |-> "input path is not a valid BD volume"]
\* What subscripting the lookup table with a key it does not hold raises.
ErrKey == [type |-> "KeyError", msg |-> "FRAMERATE"]

----------------------------------------------------------------------------
(* Rational arithmetic *)

RECURSIVE GCD(_, _)
GCD(a, b) == IF b = 0 THEN a ELSE GCD(b, a % b)

Abs(x) == IF x < 0 THEN 0 - x ELSE x

\* A fraction <<n, d>> in lowest terms with d > 0, as fractions.Fraction keeps it.
Fraction(n, d) ==
    LET g == GCD(Abs(n), d)
    IN  IF g = 0 THEN <<0, 1>> ELSE <<n \div g, d \div g>>

\* The rational n / d rounded to the nearest integer, a tie going to the even
\* one.
Round(n, d) ==
    LET q == n \div d
        r == n % d
    IN  IF 2 * r < d THEN q
        ELSE IF 2 * r > d THEN q + 1
        ELSE IF q % 2 = 0 THEN q ELSE q + 1

\* mpls.FRAMERATE of pyparsebluray: frame-rate code -> rational frame rate.
FRAMERATE ==
    (1 :> <<24000, 1001>>) @@ (2 :> <<24, 1>>) @@ (3 :> <<25, 1>>) @@
    (4 :> <<30000, 1001>>) @@ (6 :> <<50, 1>>) @@ (7 :> <<60000, 1001>>)

----------------------------------------------------------------------------
(* Binary64 arithmetic.  Line 242 divides two ints with `/`, which yields a  *)
(* Python float, and Convert.seconds2f multiplies that float by the frame    *)
(* rate and rounds the product.  A float is <<m, e>>, standing for m * 2^e   *)
(* with 2^52 <= m < 2^53, or zero; m does not fit the integers of TLC and is *)
(* kept as its little-endian digits in base 2^LimbBits, without a leading    *)
(* zero digit (zero is the empty sequence).                                  *)

LimbBits == 15

\* The bits of a binary64 significand.
Precision == 53

RECURSIVE Pow2(_)
Pow2(k) == IF k = 0 THEN 1 ELSE 2 * Pow2(k - 1)

LimbBase == Pow2(LimbBits)

RECURSIVE Trim(_)
Trim(a) ==
    IF a # << >> /\ a[Len(a)] = 0 THEN Trim(SubSeq(a, 1, Len(a) - 1)) ELSE a

RECURSIVE BigOfInt(_)
BigOfInt(n) ==
    IF n = 0 THEN << >> ELSE <<n % LimbBase>> \o BigOfInt(n \div LimbBase)

RECURSIVE IntOfBig(_)
IntOfBig(a) == IF a = << >> THEN 0 ELSE a[1] + LimbBase * IntOfBig(Tail(a))

\* a * k + carry, for 0 <= k < 2 * LimbBase.
RECURSIVE BigMulSmall(_, _, _)
BigMulSmall(a, k, carry) ==
    IF a = << >> THEN BigOfInt(carry)
    ELSE LET t == a[1] * k + carry
         IN  <<t % LimbBase>> \o BigMulSmall(Tail(a), k, t \div LimbBase)

\* <<a div v, a mod v>>, for 0 < v < 2 * LimbBase.
RECURSIVE BigDivModSmall(_, _)
BigDivModSmall(a, v) ==
    IF a = << >> THEN <<<< >>, 0>>
    ELSE LET hi == BigDivModSmall(Tail(a), v)
             t == hi[2] * LimbBase + a[1]
         IN  <<Trim(<<t \div v>> \o hi[1]), t % v>>

RECURSIVE BigAdd(_, _, _)
BigAdd(a, b, carry) ==
    IF a = << >> /\ b = << >> THEN BigOfInt(carry)
    ELSE LET x == IF a = << >> THEN 0 ELSE a[1]
             y == IF b = << >> THEN 0 ELSE b[1]
             t == x + y + carry
         IN  <<t % LimbBase>> \o
             BigAdd(IF a = << >> THEN a ELSE Tail(a),
                    IF b = << >> THEN b ELSE Tail(b), t \div LimbBase)

RECURSIVE BigMul(_, _)
BigMul(a, b) ==
    IF a = << >> \/ b = << >> THEN << >>
    ELSE BigAdd(BigMulSmall(a, b[1], 0), <<0>> \o BigMul(a, Tail(b)), 0)

RECURSIVE IntBitLength(_)
IntBitLength(n) == IF n = 0 THEN 0 ELSE 1 + IntBitLength(n \div 2)

BigBitLength(a) ==
    IF a = << >> THEN 0 ELSE LimbBits * (Len(a) - 1) + IntBitLength(a[Len(a)])

\* a * 2^s
BigShiftLeft(a, s) ==
    IF a = << >> THEN a
    ELSE [k \in 1..(s \div LimbBits) |-> 0] \o BigMulSmall(a, Pow2(s % LimbBits), 0)

\* <<a div 2^s, a mod 2^s # 0>>
BigShiftRight(a, s) ==
    LET drop == s \div LimbBits
        low == SubSeq(a, 1, IF drop < Len(a) THEN drop ELSE Len(a))
        high == SubSeq(a, drop + 1, Len(a))
        qr == BigDivModSmall(high, Pow2(s % LimbBits))
    IN  <<qr[1], qr[2] # 0 \/ \E k \in 1..Len(low) : low[k] # 0>>

BigIsOdd(a) == a # << >> /\ a[1] % 2 = 1

\* a / 2^s rounded to the nearest integer, a tie going to the even one;
\* `sticky` tells that a stands for a value slightly above a.
BigRoundShift(a, s, sticky) ==
    IF s = 0 THEN a
    ELSE LET twice == BigShiftRight(a, s - 1)
             q == BigShiftRight(twice[1], 1)
             half == BigIsOdd(twice[1])
             below == twice[2] \/ sticky
         IN  IF half /\ (below \/ BigIsOdd(q[1]))
             THEN BigAdd(q[1], << >>, 1)
             ELSE q[1]

FloatZero == <<<< >>, 0>>

\* The float nearest to n * 2^e (to a value slightly above it when sticky),
\* for n >= 2^52: round-to-nearest, ties to even.
FloatRound(n, e, sticky) ==
    LET s == BigBitLength(n) - Precision
        m == BigRoundShift(n, s, sticky)
    IN  IF BigBitLength(m) > Precision
        THEN <<BigShiftRight(m, 1)[1], e + s + 1>>
        ELSE <<m, e + s>>

\* n / d of two ints (true division), n >= 0 and d > 0: the float nearest to
\* the quotient.
TrueDivide(n, d) ==
    IF n = 0 THEN FloatZero
    ELSE LET s == Precision + 2 + IntBitLength(d) - IntBitLength(n)
             qr == BigDivModSmall(BigShiftLeft(BigOfInt(n), s), d)
         IN  FloatRound(qr[1], 0 - s, qr[2] # 0)

\* x * y of two floats.
FloatMul(x, y) ==
    IF x[1] = << >> \/ y[1] = << >> THEN FloatZero
    ELSE FloatRound(BigMul(x[1], y[1]), x[2] + y[2], FALSE)

\* round(x) of a float x >= 0: the nearest integer, a tie going to the even one.
FloatRoundToInt(x) ==
    IF x[1] = << >> THEN 0
    ELSE IF x[2] >= 0 THEN IntOfBig(BigShiftLeft(x[1], x[2]))
    ELSE IntOfBig(BigRoundShift(x[1], 0 - x[2], FALSE))

\* float(fps) of a Fraction: numerator / denominator.
FloatOfFraction(fps) == TrueDivide(fps[1], fps[2])

\* The conversion with ticks taken for 90 kHz ticks.
SecondsOfTicks90kHz(d) == TrueDivide(d \div 2, TicksPerSecond)

\* (item_mark.mark_timestamp - offset) / 45000: seconds, a float.
SecondsOfTicks(d) == TrueDivide(d, TicksPerSecond)

\* Convert.seconds2f(s, fps) of pytimeconv: round(s * fps), where the product
\* of the float s and the Fraction fps is float(s) * float(fps).
seconds2f(s, fps) == FloatRoundToInt(FloatMul(s, FloatOfFraction(fps)))

----------------------------------------------------------------------------
(* The per-item computations of MplsFile.parse *)

\* sorted(seq, key=lambda x: x.mark_timestamp): a stable sort.
RECURSIVE InsertByTimestamp(_, _)
InsertByTimestamp(sorted, m) ==
    IF sorted = << >> THEN <<m>>
    ELSE IF Head(sorted).mark_timestamp <= m.mark_timestamp
         THEN <<Head(sorted)>> \o InsertByTimestamp(Tail(sorted), m)
         ELSE <<m>> \o sorted

RECURSIVE SortedByTimestamp(_)
SortedByTimestamp(seq) ==
    IF seq = << >> THEN << >>
    ELSE InsertByTimestamp(SortedByTimestamp(SubSeq(seq, 1, Len(seq) - 1)),
                           seq[Len(seq)])

\* The filter with the play-item ids taken for 1-based.
MarksReferringOneBased(ms, idx) ==
    SelectSeq(ms, LAMBDA m : m.ref_to_play_item_id = idx + 1)

\* [mark for mark in marks if mark.ref_to_play_item_id == i]
MarksReferring(ms, idx) ==
    SelectSeq(ms, LAMBDA m : m.ref_to_play_item_id = idx)

\* The item's marks left in the order of the mark table.
ItemMarksUnsorted(ms, idx) == MarksReferring(ms, idx)

\* item_marks = sorted([...], key=lambda x: x.mark_timestamp)
ItemMarks(ms, idx) == SortedByTimestamp(MarksReferring(ms, idx))

Min(a, b) == IF a <= b THEN a ELSE b

\* The offset taken from the first item mark alone whenever there is one.
OffsetOfFirstMark(item, item_marks) ==
    IF item_marks = << >> THEN Val(item.intime)
    ELSE item_marks[1].mark_timestamp

\* offset = item.intime if not item_marks else min(item_marks[0].mark_timestamp, item.intime)
Offset(item, item_marks) ==
    IF item_marks = << >> THEN Val(item.intime)
    ELSE Min(item_marks[1].mark_timestamp, Val(item.intime))

\* m2ts_folder / f"{file_name}.{file_ext}": the file name below the STREAM folder.
FilePath(item) ==
    <<FormatStr(item.clip_information_filename), FormatStr(item.clip_codec_identifier)>>

\* (file_name or file_ext) is None
MediaReferenceMissing(item) ==
    LET file_name == item.clip_information_filename
        file_ext == item.clip_codec_identifier
        picked == IF TruthyStr(file_name) THEN file_name ELSE file_ext
    IN  picked = None

\* The condition of line 221: the stn table is there, is not empty, has video
\* stream entries and the first of them carries a frame-rate code (not None, not 0).
HasFramerate(item) ==
    /\ item.stn_table # None
    /\ Val(item.stn_table).length # 0
    /\ Val(item.stn_table).prim_video_stream_entries # None
    /\ Val(Val(item.stn_table).prim_video_stream_entries) # << >>
    /\ Val(Val(item.stn_table).prim_video_stream_entries)[1] # None
    /\ Val(Val(Val(item.stn_table).prim_video_stream_entries)[1]) # 0

fps_n(item) == Val(Val(Val(item.stn_table).prim_video_stream_entries)[1])

\* try: fps = mpls.FRAMERATE[fps_n] / except AttributeError: raise ValueError(...)
FramerateLookup(code) ==
    LET raised == IF code \in DOMAIN FRAMERATE THEN None ELSE Some(ErrKey)
    IN  IF raised # None /\ Val(raised).type = "AttributeError"
        THEN Some(ErrUnknownFramerate)
        ELSE raised

\* The checks of one iteration without the ensure_path of the media file.
ItemErrorNoPathCheck(item, disk) ==
    IF MediaReferenceMissing(item) THEN Some(ErrNoMedia)
    ELSE IF item.intime = None THEN Some(ErrNoIntime)
    ELSE IF ~HasFramerate(item) THEN Some(ErrNoFramerate)
    ELSE FramerateLookup(fps_n(item))

\* The first exception one iteration of the loop raises for `item`, None if the
\* iteration builds its MplsItem.  The checks come in the order of the code.
ItemError(item, disk) ==
    IF MediaReferenceMissing(item) THEN Some(ErrNoMedia)
    ELSE IF FilePath(item) \notin disk.stream THEN Some(ErrPathMissing)
    ELSE IF item.intime = None THEN Some(ErrNoIntime)
    ELSE IF ~HasFramerate(item) THEN Some(ErrNoFramerate)
    ELSE FramerateLookup(fps_n(item))

\* item_chapters: one frame number per item mark, in the order of item_marks.
Chapters(item_marks, offset, fps) ==
    [k \in 1..Len(item_marks) |->
        seconds2f(SecondsOfTicks(item_marks[k].mark_timestamp - offset), fps)]

\* MplsItem(file_path, item_chapters, fps, item, item_marks)
BuildItem(item, idx, ms) ==
    LET item_marks == ItemMarks(ms, idx)
        fps == FRAMERATE[fps_n(item)]
    IN  [m2ts_file |-> FilePath(item),
         chapters |-> Chapters(item_marks, Offset(item, item_marks), fps),
         framerate |-> fps,
         item_data |-> item,
         item_marks |-> item_marks]

\* The new item put in front of the list.
PrependItem(list, it) == <<it>> \o list

\* mpls_items.append(chapter)
AppendItem(list, it) == Append(list, it)

----------------------------------------------------------------------------
(* Inputs: what the decoder returns and what the disk holds *)

\* A local variable that has not been assigned yet.
Unbound == <<"unbound", "unbound">>

PlayItem(name, ext, intime, stn) ==
    [clip_information_filename |-> name,
     clip_codec_identifier |-> ext,
     intime |-> intime,
     stn_table |-> stn]

\* An stn table whose first video stream entry carries frame-rate code `code`.
Stn(code) == Some([length |-> 1, prim_video_stream_entries |-> Some(<<Some(code)>>)])

PlaylistMark(ref, ts) == [ref_to_play_item_id |-> ref, mark_timestamp |-> ts]

ClipNames == {"00000", "00001"}
Ticks == {0, 45000}
InTimes == {0, 45000}

\* stn tables that fail one conjunct of line 221 each, or carry code 5, which
\* is no key of FRAMERATE.
BrokenStnTables ==
    {None,
     Some([length |-> 0, prim_video_stream_entries |-> Some(<<Some(1)>>)]),
     Some([length |-> 1, prim_video_stream_entries |-> None]),
     Some([length |-> 1, prim_video_stream_entries |-> Some(<< >>)]),
     Some([length |-> 1, prim_video_stream_entries |-> Some(<<None>>)]),
     Stn(0),
     Stn(5)}

WellFormedItems ==
    {PlayItem(Some(n), Some("M2TS"), Some(t), Stn(1)) : n \in ClipNames, t \in InTimes}

\* Play-items with one optional field absent (or both media fields absent).
DefectiveItems ==
    {PlayItem(None, Some("M2TS"), Some(0), Stn(1)),
     PlayItem(Some("00000"), None, Some(0), Stn(1)),
     PlayItem(None, None, Some(0), Stn(1)),
     PlayItem(Some("00000"), Some("M2TS"), None, Stn(1))}
    \cup {PlayItem(Some("00000"), Some("M2TS"), Some(0), s) : s \in BrokenStnTables}

PlayItems == WellFormedItems \cup DefectiveItems

PlaylistMarks == {PlaylistMark(r, t) : r \in 0..MaxItems, t \in Ticks}

\* Every Optional[List[T]] with at most `max` elements of D.
OptionalLists(D, max) ==
    {None} \cup {Some(l) : l \in UNION {[1..n -> D] : n \in 0..max}}

\* The files a STREAM folder may hold, by <<stem, extension>>.
M2tsFiles == {<<n, "M2TS">> : n \in ClipNames}
StreamFolders ==
    {M2tsFiles,
     {<<"00000", "M2TS">>},
     M2tsFiles \cup {<<"00000", "None">>, <<"None", "M2TS">>}}

\* The disk: does the playlist file exist, does the STREAM folder, and its files.
Disks ==
    {[mpls_file |-> m, m2ts_folder |-> TRUE, stream |-> s] :
        m \in BOOLEAN, s \in StreamFolders}
    \cup {[mpls_file |-> m, m2ts_folder |-> FALSE, stream |-> {}] : m \in BOOLEAN}

\* The inputs of the chapter computation: one well-formed play-item of every
\* frame rate of the table, and marks on a wider range of ticks.
ChapterTicks == {0, 900, 45000, 2700000}
ChapterItems ==
    {PlayItem(Some("00000"), Some("M2TS"), Some(t), Stn(c)) :
        t \in ChapterTicks, c \in DOMAIN FRAMERATE}
ChapterMarks == {PlaylistMark(r, t) : r \in 0..1, t \in ChapterTicks}
ChapterItemLists == {Some(<<it>>) : it \in ChapterItems}
IntactDisks == {[mpls_file |-> TRUE, m2ts_folder |-> TRUE, stream |-> M2tsFiles]}

\* The inputs of the start offset and of the rounding: one play-item with or
\* without intime at 24000/1001, 25 or 50 frames per second, and marks before
\* and after intime, some of them a whole number of frames and a half
\* (98100 ticks are 54.5 frames at 25 fps, 103500 ticks are 57.5).
FrameTicks == {0, 900, 98100, 103500}
FrameInTimes == {None, Some(0), Some(900), Some(98100)}
FrameCodes == {1, 3, 6}
FrameItems ==
    {PlayItem(Some("00000"), Some("M2TS"), t, Stn(c)) :
        t \in FrameInTimes, c \in FrameCodes}
FrameMarks == {PlaylistMark(r, t) : r \in 0..1, t \in FrameTicks}
FrameItemLists == {Some(<<it>>) : it \in FrameItems}

----------------------------------------------------------------------------
(* BdVolume.from_path is idle while MplsFile.parse is followed. *)

VolIdle ==
    /\ vpc = "idle"
    /\ vol = None
    /\ vresult = None
    /\ verr = None

(* BdVolume.get_playlist is idle while another operation is followed. *)

PlaylistIdle ==
    /\ gpc = "idle"
    /\ mpls_dir = {}
    /\ playlist_idx = 0
    /\ files = Unbound
    /\ gresult = None
    /\ gerr = None

(* BDMV.from_path and BDMV.from_volumes are idle. *)

BdmvIdle ==
    /\ bpc = "idle"
    /\ ondisk = << >>
    /\ order = << >>
    /\ bargs = None
    /\ subdirs = Unbound
    /\ bk = 0
    /\ bd_volumes = << >>
    /\ bresult = None
    /\ berr = None
    /\ listed = << >>

(* MplsItem.chapters_timestamp is idle. *)

StampIdle ==
    /\ tpc = "idle"
    /\ self_item = None
    /\ precison = 0
    /\ tresult = None
    /\ terr = None

(* No parser is being built or used. *)

ParserIdle ==
    /\ ppc = "idle"
    /\ ep_playlist = None
    /\ bd_items = << >>
    /\ pk = 0
    /\ episodes = << >>
    /\ episode_number = 0
    /\ op_ranges = << >>
    /\ ed_ranges = << >>
    /\ _ncops = << >>
    /\ _nceds = << >>
    /\ _ep_cache = << >>
    /\ mcall = None
    /\ mresult = None
    /\ perr = None
    /\ _idx = 1
    /\ receiver = "A"
    /\ parked = None
    /\ fpc = "idle"
    /\ yielded = << >>
    /\ loops = 0

LaterIdle == PlaylistIdle /\ BdmvIdle /\ StampIdle /\ ParserIdle

----------------------------------------------------------------------------
(* MplsFile.parse *)

ParseInit(disks) ==
    /\ pc = "start"
    /\ fs \in disks
    /\ fileOpen = FALSE
    /\ items = Unbound
    /\ marks = Unbound
    /\ i = 0
    /\ mpls_items = << >>
    /\ result = None
    /\ err = None

\* MplsFile(mpls_file.resolve(), mpls_items)
MplsFile(list) == [mpls_file |-> "mpls_file", items |-> list]

\* The handle left as it is when control leaves the `with` block.
LeftOpen(handle) == handle

\* Leaving the `with` block of line 181, by its end or by a raise, closes the
\* handle.
ExitWith(handle) == FALSE

\* Lines 177-178: both ensure_path calls.
EnsurePaths ==
    /\ pc = "start"
    /\ IF fs.mpls_file /\ fs.m2ts_folder
       THEN /\ pc' = "open"
            /\ err' = err
       ELSE /\ pc' = "raised"
            /\ err' = Some(ErrPathMissing)
    /\ UNCHANGED <<fs, fileOpen, items, marks, i, mpls_items, result>>
    /\ UNCHANGED <<volVars, laterVars>>

\* Lines 181-188: open the file, decode the header and the play-item table.
\* Raising inside the `with` block closes the handle.
LoadItems(decoded) ==
    /\ pc = "open"
    /\ \E its \in decoded :
        /\ items' = its
        /\ IF its = None
           THEN /\ pc' = "raised"
                /\ err' = Some(ErrNoPlayItems)
                /\ fileOpen' = ExitWith(TRUE)
           ELSE /\ pc' = "marks"
                /\ err' = err
                /\ fileOpen' = TRUE
    /\ UNCHANGED <<fs, marks, i, mpls_items, result>>
    /\ UNCHANGED <<volVars, laterVars>>

\* Lines 190-194 and the end of the `with` block: decode the mark table.
LoadMarks(decoded) ==
    /\ pc = "marks"
    /\ \E ms \in decoded :
        /\ marks' = ms
        /\ IF ms = None
           THEN /\ pc' = "raised"
                /\ err' = Some(ErrNoMarks)
           ELSE /\ pc' = "loop"
                /\ err' = err
    /\ fileOpen' = ExitWith(fileOpen)
    /\ UNCHANGED <<fs, items, i, mpls_items, result>>
    /\ UNCHANGED <<volVars, laterVars>>

\* Lines 197-245: one iteration of `for i, item in enumerate(items)`.
ProcessItem ==
    /\ pc = "loop"
    /\ i < Len(Val(items))
    /\ LET item == Val(items)[i + 1]
           raised == ItemError(item, fs)
       IN  IF raised # None
           THEN /\ pc' = "raised"
                /\ err' = raised
                /\ UNCHANGED <<i, mpls_items>>
           ELSE /\ mpls_items' = AppendItem(mpls_items, BuildItem(item, i, Val(marks)))
                /\ i' = i + 1
                /\ UNCHANGED <<pc, err>>
    /\ UNCHANGED <<fs, fileOpen, items, marks, result>>
    /\ UNCHANGED <<volVars, laterVars>>

\* Line 247: the loop is exhausted.
Return ==
    /\ pc = "loop"
    /\ i = Len(Val(items))
    /\ pc' = "done"
    /\ result' = Some(MplsFile(mpls_items))
    /\ UNCHANGED <<fs, fileOpen, items, marks, i, mpls_items, err>>
    /\ UNCHANGED <<volVars, laterVars>>

Init == ParseInit(Disks) /\ VolIdle /\ LaterIdle

Next ==
    \/ EnsurePaths
    \/ LoadItems(OptionalLists(PlayItems, MaxItems))
    \/ LoadMarks(OptionalLists(PlaylistMarks, MaxMarks))
    \/ ProcessItem
    \/ Return

Spec == Init /\ [][Next]_vars

\* The same operation on playlists of well-formed play-items and longer mark
\* tables: the inputs on which the items' order and their marks show.
InitOrder == ParseInit(IntactDisks) /\ VolIdle /\ LaterIdle

NextOrder ==
    \/ EnsurePaths
    \/ LoadItems(OptionalLists(WellFormedItems, MaxItems))
    \/ LoadMarks(OptionalLists(PlaylistMarks, MaxOrderMarks))
    \/ ProcessItem
    \/ Return

SpecOrder == InitOrder /\ [][NextOrder]_vars

\* The same operation on the inputs of the chapter computation.
InitChapters == ParseInit(IntactDisks) /\ VolIdle /\ LaterIdle

NextChapters ==
    \/ EnsurePaths
    \/ LoadItems(ChapterItemLists)
    \/ LoadMarks(OptionalLists(ChapterMarks, MaxChapterMarks))
    \/ ProcessItem
    \/ Return

SpecChapters == InitChapters /\ [][NextChapters]_vars

\* The same operation on the inputs of the start offset and of the rounding.
InitFrames == ParseInit(IntactDisks) /\ VolIdle /\ LaterIdle

NextFrames ==
    \/ EnsurePaths
    \/ LoadItems(FrameItemLists)
    \/ LoadMarks(OptionalLists(FrameMarks, MaxChapterMarks))
    \/ ProcessItem
    \/ Return

SpecFrames == InitFrames /\ [][NextFrames]_vars

----------------------------------------------------------------------------
(* BdVolume.from_path *)

\* A path is its segments; an absolute path starts with the root segment "/".
Cwd == <<"/", "work">>
IsAbsolute(p) == p # << >> /\ p[1] = "/"

\* Path.resolve() on a path without symbolic links: made absolute against the
\* working directory.
Resolve(p) == IF IsAbsolute(p) THEN p ELSE Cwd \o p

\* What a directory entry is on disk.
EntryKinds == {"absent", "file", "dir"}

\* The same counting directories only.
ExistsAsDirectory(kind) == kind \notin {"absent", "file"}

\* Path.exists(): any kind of entry counts.
Exists(kind) == kind # "absent"

VolumePaths == {<<"/", "x", "VOL1">>, <<"VOL2">>}

\* A candidate folder as found on disk: None when the path itself does not
\* exist, else its path and the kind of the entries from_path looks at or names.
\* PLAYLIST and STREAM can only exist below a BDMV that is a directory.
VolumeFolders ==
    {None}
    \cup {Some([volume_path |-> p, BDMV |-> b, CERTIFICATE |-> c,
                PLAYLIST |-> l, STREAM |-> s]) :
            p \in VolumePaths, b \in EntryKinds, c \in EntryKinds,
            l \in EntryKinds, s \in EntryKinds}

VolumeOnDisk ==
    {v \in VolumeFolders :
        v # None => (Val(v).BDMV # "dir" =>
                        Val(v).PLAYLIST = "absent" /\ Val(v).STREAM = "absent")}

\* if not (bdmv_folder.exists() and certificate_folder.exists())
IsValidVolume(folder) == Exists(folder.BDMV) /\ Exists(folder.CERTIFICATE)

\* BdVolume(path, mpls_folder.resolve(), m2ts_folder.resolve())
BdVolume(path) ==
    [volume_path |-> path,
     mpls_folder |-> Resolve(path \o <<"BDMV", "PLAYLIST">>),
     m2ts_folder |-> Resolve(path \o <<"BDMV", "STREAM">>)]

VolInit ==
    /\ vpc = "start"
    /\ vol \in VolumeOnDisk
    /\ vresult = None
    /\ verr = None

ParseIdle ==
    /\ pc = "idle"
    /\ fs = None
    /\ fileOpen = FALSE
    /\ items = Unbound
    /\ marks = Unbound
    /\ i = 0
    /\ mpls_items = << >>
    /\ result = None
    /\ err = None

\* Line 109: path = ensure_path(path, "BdVolume.from_path")
VolEnsurePath ==
    /\ vpc = "start"
    /\ IF vol = None
       THEN /\ vpc' = "raised"
            /\ verr' = Some(ErrPathMissing)
       ELSE /\ vpc' = "ensured"
            /\ verr' = verr
    /\ UNCHANGED <<vol, vresult>>
    /\ UNCHANGED <<parseVars, laterVars>>

\* Lines 111-115: the BDMV and CERTIFICATE test.
VolCheckFolders ==
    /\ vpc = "ensured"
    /\ IF IsValidVolume(Val(vol))
       THEN /\ vpc' = "valid"
            /\ verr' = verr
       ELSE /\ vpc' = "raised"
            /\ verr' = Some(ErrInvalidVolume)
    /\ UNCHANGED <<vol, vresult>>
    /\ UNCHANGED <<parseVars, laterVars>>

\* Lines 117-120: build the BdVolume.
VolReturn ==
    /\ vpc = "valid"
    /\ vpc' = "done"
    /\ vresult' = Some(BdVolume(Resolve(Val(vol).volume_path)))
    /\ UNCHANGED <<vol, verr>>
    /\ UNCHANGED <<parseVars, laterVars>>

InitVolume == VolInit /\ ParseIdle /\ LaterIdle

NextVolume ==
    \/ VolEnsurePath
    \/ VolCheckFolders
    \/ VolReturn

SpecVolume == InitVolume /\ [][NextVolume]_vars

----------------------------------------------------------------------------
(* BdVolume.get_playlist *)

ErrNoPlaylist ==
    [type |-> "ValueError", msg |-> "No playlist file found with id"]
ErrManyPlaylists ==
    [type |-> "ValueError", msg |-> "Multitple files found with id"]
\* What subscripting an empty list raises.
ErrIndex == [type |-> "IndexError", msg |-> "list index out of range"]

\* str(n) of a non-negative integer, as its decimal digits.
RECURSIVE Digits(_)
Digits(n) == IF n < 10 THEN <<n>> ELSE Digits(n \div 10) \o <<n % 10>>

\* str.zfill(width): zeros on the left up to the width, longer text unchanged.
RECURSIVE zfill(_, _)
zfill(text, width) ==
    IF Len(text) >= width THEN text ELSE zfill(<<0>> \o text, width)

PlaylistIdWidth == 5

\* playlist_id = str(playlist_idx).zfill(5)
PlaylistId(idx) == zfill(Digits(idx), PlaylistIdWidth)

PlaylistIds == {0, 1, 10, 123456}

\* The stems of the .mpls files a PLAYLIST folder may hold.
MplsStems == {PlaylistId(0), PlaylistId(1), <<1>>, <<1, 0>>}

\* list(self.mpls_folder.glob(f"{playlist_id}.mpls")): a pattern without
\* wildcards matches the file of that name, if there is one.
Glob(dir, playlist_id) ==
    IF playlist_id \in dir THEN <<playlist_id>> ELSE << >>

\* The call MplsFile.parse(playlist_file, self.m2ts_folder), whose body is
\* followed by the actions of MplsFile.parse above.
MplsFileParse(self, playlist_file) ==
    [mpls_file |-> [folder |-> self.mpls_folder, stem |-> playlist_file],
     m2ts_folder |-> self.m2ts_folder]

PlaylistInit ==
    /\ gpc = "start"
    /\ mpls_dir \in (IF vol # None /\ Val(vol).PLAYLIST = "dir"
                     THEN SUBSET MplsStems ELSE {{}})
    /\ playlist_idx \in PlaylistIds
    /\ files = Unbound
    /\ gresult = None
    /\ gerr = None

\* Lines 130-131, on the BdVolume that from_path returned.
GetPlaylistGlob ==
    /\ vpc = "done"
    /\ gpc = "start"
    /\ files' = Glob(mpls_dir, PlaylistId(playlist_idx))
    /\ gpc' = "globbed"
    /\ UNCHANGED <<mpls_dir, playlist_idx, gresult, gerr>>
    /\ UNCHANGED exceptPlaylist

\* Lines 133-138: the exception of the two raises and of files[0], or None.
PickError(found) ==
    IF Len(found) < 0 THEN Some(ErrNoPlaylist)
    ELSE IF Len(found) > 1 THEN Some(ErrManyPlaylists)
    ELSE IF found = << >> THEN Some(ErrIndex)
    ELSE None

\* Lines 133-138: the two raises and playlist_file = files[0].
GetPlaylistPick ==
    /\ gpc = "globbed"
    /\ IF PickError(files) # None
       THEN gpc' = "raised" /\ gerr' = PickError(files)
       ELSE gpc' = "picked" /\ gerr' = gerr
    /\ UNCHANGED <<mpls_dir, playlist_idx, files, gresult>>
    /\ UNCHANGED exceptPlaylist

\* Line 140: return MplsFile.parse(playlist_file, self.m2ts_folder)
GetPlaylistReturn ==
    /\ gpc = "picked"
    /\ gpc' = "done"
    /\ gresult' = Some(MplsFileParse(Val(vresult), files[1]))
    /\ UNCHANGED <<mpls_dir, playlist_idx, files, gerr>>
    /\ UNCHANGED exceptPlaylist

InitPlaylist ==
    VolInit /\ ParseIdle /\ PlaylistInit /\ BdmvIdle /\ StampIdle /\ ParserIdle

NextPlaylist ==
    \/ VolEnsurePath
    \/ VolCheckFolders
    \/ VolReturn
    \/ GetPlaylistGlob
    \/ GetPlaylistPick
    \/ GetPlaylistReturn

SpecPlaylist == InitPlaylist /\ [][NextPlaylist]_vars

----------------------------------------------------------------------------
(* BDMV.from_path and BDMV._find_bd_volume *)

\* What listing a path that is not a directory raises.
ErrNotADirectory == [type |-> "NotADirectoryError", msg |-> "Not a directory"]

\* The folder the searches start from, and the entry names below it.
BdRoot == <<"/", "bd">>
DirNames == {"a", "b"}
NameOrders == {<<"a", "b">>, <<"b", "a">>}

\* At most this many entries lie below the root folder.
MaxDirs == 4

\* An entry below the root is a regular file, a directory, or a directory that
\* holds the two directories BDMV and CERTIFICATE.
NodeKinds == {"file", "dir", "volume"}

ChildCandidates(T) == {q \o <<n>> : q \in T \cup {BdRoot}, n \in DirNames} \ T

\* The sets of at most k paths below the root that hold every path's parent.
RECURSIVE TreeShapes(_)
TreeShapes(k) ==
    IF k = 0 THEN {{}}
    ELSE LET prev == TreeShapes(k - 1)
         IN prev \cup UNION {{T \cup {p} : p \in ChildCandidates(T)} : T \in prev}

IsPrefix(p, q) == Len(p) <= Len(q) /\ SubSeq(q, 1, Len(p)) = p

\* The root as a directory with entries below it; a regular file has none.
TreesBelow(T) ==
    {f \in [T \cup {BdRoot} -> NodeKinds] :
        /\ f[BdRoot] = "dir"
        /\ \A p \in T : f[p] = "file" => \A q \in T : IsPrefix(p, q) => q = p}

\* An entry may also be a symbolic link to the directory that holds it, which
\* makes that directory reachable from its own entries.
LinkedKinds == NodeKinds \cup {"uplink"}

\* The same with symbolic links among the entries, at least one of them.
MaxLinkedDirs == 3
LinkedTrees ==
    UNION {{f \in [T \cup {BdRoot} -> LinkedKinds] :
              /\ f[BdRoot] = "dir"
              /\ \E p \in T : f[p] = "uplink"
              /\ \A p \in T : f[p] \in {"file", "uplink"} =>
                    \A q \in T : IsPrefix(p, q) => q = p} :
           T \in TreeShapes(MaxLinkedDirs)}

\* What can be on disk at and below the root: nothing, a regular file, or a
\* directory tree.
DiskTrees ==
    {<< >>, [p \in {BdRoot} |-> "file"]}
    \cup UNION {TreesBelow(T) : T \in TreeShapes(MaxDirs)}

Kind(d, p) == IF p \in DOMAIN d THEN d[p] ELSE "absent"

\* The system follows at most this many symbolic links while it resolves one
\* path, and fails with ELOOP beyond.
MaxSymlinks == 2

\* The directory entry a path leads to once the links on it are followed, and
\* how many links that takes.
RECURSIVE Follow(_, _, _)
Follow(d, cur, rest) ==
    IF rest = << >> THEN cur
    ELSE LET entry == Append(cur, Head(rest))
         IN  Follow(d, IF Kind(d, entry) = "uplink" THEN cur ELSE entry, Tail(rest))

RECURSIVE LinksFollowed(_, _, _)
LinksFollowed(d, cur, rest) ==
    IF rest = << >> THEN 0
    ELSE LET entry == Append(cur, Head(rest))
         IN  IF Kind(d, entry) = "uplink"
             THEN 1 + LinksFollowed(d, cur, Tail(rest))
             ELSE LinksFollowed(d, entry, Tail(rest))

Physical(d, p) == Follow(d, << >>, p)

\* What a path turns out to be when its links are followed: is_dir() and
\* exists() answer False for a path the system refuses with ELOOP.
Stat(d, p) ==
    IF LinksFollowed(d, << >>, p) > MaxSymlinks THEN "absent"
    ELSE Kind(d, Physical(d, p))

\* Path.is_dir()
IsDir(kind) == kind \in {"dir", "volume"}

\* [x for x in root_dir.iterdir() if x.is_dir()], without the BDMV and
\* CERTIFICATE directories of a volume, which hold no volume themselves.
Subdirs(d, ord, root_dir) ==
    SelectSeq([k \in 1..Len(ord) |-> root_dir \o <<ord[k]>>],
              LAMBDA x : IsDir(Stat(d, x)))

\* if "BDMV" in subdirs and "CERTIFICATE" in subdirs
HoldsBdmvAndCertificate(d, root_dir) == Stat(d, root_dir) = "volume"

RECURSIVE FindBdVolume(_, _, _)
RECURSIVE FirstVolume(_, _, _)

\* The same loop returning the last volume found instead of the first.
RECURSIVE LastVolume(_, _, _)
LastVolume(d, ord, dirs) ==
    IF dirs = << >> THEN None
    ELSE LET rest == LastVolume(d, ord, Tail(dirs))
         IN IF rest # None THEN rest ELSE FindBdVolume(d, ord, Head(dirs))

\* Lines 75-78: for subdir in subdirs, return the first volume found.
FirstVolume(d, ord, dirs) ==
    IF dirs = << >> THEN None
    ELSE LET found == FindBdVolume(d, ord, Head(dirs))
         IN IF found # None THEN found ELSE FirstVolume(d, ord, Tail(dirs))

\* BDMV._find_bd_volume(root_dir), lines 67-80; BdVolume.from_path resolves
\* the path of the volume.
FindBdVolume(d, ord, root_dir) ==
    IF HoldsBdmvAndCertificate(d, root_dir)
    THEN Some(BdVolume(Physical(d, Resolve(root_dir))))
    ELSE FirstVolume(d, ord, Subdirs(d, ord, root_dir))

\* The directories that the calls of _find_bd_volume made for root_dir list
\* at line 69, in the order of the calls.
RECURSIVE ListedBy(_, _, _)
RECURSIVE ListedUntilFound(_, _, _)
ListedUntilFound(d, ord, dirs) ==
    IF dirs = << >> THEN << >>
    ELSE ListedBy(d, ord, Head(dirs))
         \o (IF FindBdVolume(d, ord, Head(dirs)) # None THEN << >>
             ELSE ListedUntilFound(d, ord, Tail(dirs)))

ListedBy(d, ord, root_dir) ==
    <<Physical(d, root_dir)>>
    \o (IF HoldsBdmvAndCertificate(d, root_dir) THEN << >>
        ELSE ListedUntilFound(d, ord, Subdirs(d, ord, root_dir)))

\* BDMV(path, bd_volumes)
BDMV(path, volumes) == [bdmv_folder |-> path, bd_volumes |-> volumes]

FromPathStart(disks) ==
    /\ bpc = "start"
    /\ ondisk \in disks
    /\ order \in NameOrders
    /\ bargs = Some([op |-> "from_path", path |-> BdRoot])
    /\ subdirs = Unbound
    /\ bk = 0
    /\ bd_volumes = << >>
    /\ bresult = None
    /\ berr = None
    /\ listed = << >>

FromPathInit == FromPathStart(DiskTrees)

\* Line 36: path = ensure_path(path, "BDMV.from_path")
FromPathEnsure ==
    /\ bpc = "start"
    /\ Val(bargs).op = "from_path"
    /\ IF Exists(Kind(ondisk, Resolve(Val(bargs).path)))
       THEN bpc' = "ensured" /\ berr' = berr
       ELSE bpc' = "raised" /\ berr' = Some(ErrPathMissing)
    /\ UNCHANGED <<ondisk, order, bargs, subdirs, bk, bd_volumes, bresult, listed>>
    /\ UNCHANGED exceptBdmv

\* Line 37: subdirs = [subdir for subdir in path.iterdir() if subdir.is_dir()]
FromPathSubdirs ==
    /\ bpc = "ensured"
    /\ IF IsDir(Kind(ondisk, Resolve(Val(bargs).path)))
       THEN /\ bpc' = "search"
            /\ subdirs' = Subdirs(ondisk, order, Resolve(Val(bargs).path))
            /\ berr' = berr
       ELSE /\ bpc' = "raised"
            /\ subdirs' = subdirs
            /\ berr' = Some(ErrNotADirectory)
    /\ UNCHANGED <<ondisk, order, bargs, bk, bd_volumes, bresult, listed>>
    /\ UNCHANGED exceptBdmv

\* Line 38, one subdir of the comprehension.
FromPathSearch ==
    /\ bpc = "search"
    /\ bk < Len(subdirs)
    /\ LET found == FindBdVolume(ondisk, order, subdirs[bk + 1])
       IN bd_volumes' = IF found # None
                        THEN Append(bd_volumes, Val(found))
                        ELSE bd_volumes
    /\ listed' = listed \o ListedBy(ondisk, order, subdirs[bk + 1])
    /\ bk' = bk + 1
    /\ UNCHANGED <<bpc, ondisk, order, bargs, subdirs, bresult, berr>>
    /\ UNCHANGED exceptBdmv

\* Line 39: return BDMV(path, bd_volumes)
FromPathReturn ==
    /\ bpc = "search"
    /\ bk = Len(subdirs)
    /\ bpc' = "done"
    /\ bresult' = Some(BDMV(Resolve(Val(bargs).path), bd_volumes))
    /\ UNCHANGED <<ondisk, order, bargs, subdirs, bk, bd_volumes, berr, listed>>
    /\ UNCHANGED exceptBdmv

InitFromPath ==
    /\ FromPathInit
    /\ ParseIdle /\ VolIdle /\ PlaylistIdle /\ StampIdle /\ ParserIdle

NextFromPath ==
    \/ FromPathEnsure
    \/ FromPathSubdirs
    \/ FromPathSearch
    \/ FromPathReturn

SpecFromPath == InitFromPath /\ [][NextFromPath]_vars

\* The same operation on directory trees that hold symbolic links.
InitSymlinks ==
    /\ FromPathStart(LinkedTrees)
    /\ ParseIdle /\ VolIdle /\ PlaylistIdle /\ StampIdle /\ ParserIdle

SpecSymlinks == InitSymlinks /\ [][NextFromPath]_vars

----------------------------------------------------------------------------
(* BDMV.from_volumes *)

\* The disk the volumes are named on: four volumes in two series folders
\* below /bd and one below the working directory.
VolumesDisk ==
    (<<"/">> :> "dir") @@ (BdRoot :> "dir") @@ (Cwd :> "dir")
    @@ (<<"/", "bd", "a">> :> "dir") @@ (<<"/", "bd", "b">> :> "dir")
    @@ (<<"/", "bd", "a", "a">> :> "volume")
    @@ (<<"/", "bd", "a", "c">> :> "volume")
    @@ (<<"/", "bd", "b", "a">> :> "volume")
    @@ (<<"/", "bd", "b", "c">> :> "volume")
    @@ (<<"/", "work", "v">> :> "volume")

VolumesOnDisk == {p \in DOMAIN VolumesDisk : VolumesDisk[p] = "volume"}

\* An element of bd_volumes: a path (str | Path) or a BdVolume object.
VolumeArgs ==
    {[as |-> "path", path |-> p] :
        p \in VolumesOnDisk \cup {<<"v">>, <<"/", "bd", "a">>, <<"/", "bd", "z">>}}
    \cup {[as |-> "object", volume |-> BdVolume(p)] : p \in VolumesOnDisk}

\* The values of bdmv_folder.
FolderArgs ==
    {None, Some(BdRoot), Some(<<"/", "bd", "a">>), Some(<<"work">>),
     Some(<<"/", "bd", "z">>)}

\* At most this many volumes are given.
MaxVolumes == 2

RECURSIVE ListsUpTo(_, _)
ListsUpTo(D, n) ==
    IF n = 0 THEN {<< >>}
    ELSE LET shorter == ListsUpTo(D, n - 1)
         IN shorter \cup {Append(l, x) : l \in {m \in shorter : Len(m) = n - 1},
                                          x \in D}

\* BdVolume.from_path(bd_vol) on this disk, lines 109-120: the exception it
\* raises, or None.
VolumeError(d, path) ==
    IF ~Exists(Kind(d, Resolve(path))) THEN Some(ErrPathMissing)
    ELSE IF Kind(d, Resolve(path)) # "volume" THEN Some(ErrInvalidVolume)
    ELSE None

\* BdVolume.from_path(bd_vol) if isinstance(bd_vol, str | Path) else bd_vol
ArgError(d, arg) == IF arg.as = "path" THEN VolumeError(d, arg.path) ELSE None
ArgVolume(arg) ==
    IF arg.as = "path" THEN BdVolume(Resolve(arg.path)) ELSE arg.volume

\* The exception of the first element of the comprehension that raises one.
RECURSIVE FirstArgError(_, _)
FirstArgError(d, args) ==
    IF args = << >> THEN None
    ELSE IF ArgError(d, Head(args)) # None THEN ArgError(d, Head(args))
    ELSE FirstArgError(d, Tail(args))

\* zip(*all_path) stops with the shortest list; without lists it yields nothing.
MinLen(all_path) ==
    IF all_path = << >> THEN 0
    ELSE CHOOSE n \in {Len(all_path[k]) : k \in 1..Len(all_path)} :
            \A k \in 1..Len(all_path) : n <= Len(all_path[k])

\* [path_part[0] for path_part in zip(*all_path) if len(set(path_part)) == 1]:
\* every position at which the lists hold one value, whatever came before it.
PathParts(all_path) ==
    LET column(j) == {all_path[k][j] : k \in 1..Len(all_path)}
        kept == SelectSeq([j \in 1..MinLen(all_path) |-> j],
                          LAMBDA j : Cardinality(column(j)) = 1)
    IN [n \in 1..Len(kept) |-> all_path[1][kept[n]]]

FromVolumesStart(lists, folders) ==
    /\ bpc = "start"
    /\ ondisk = VolumesDisk
    /\ order = << >>
    /\ bargs \in {Some([op |-> "from_volumes", bd_volumes |-> l, bdmv_folder |-> f]) :
                    l \in lists, f \in folders}
    /\ subdirs = Unbound
    /\ bk = 0
    /\ bd_volumes = << >>
    /\ bresult = None
    /\ berr = None
    /\ listed = << >>

FromVolumesInit == FromVolumesStart(ListsUpTo(VolumeArgs, MaxVolumes), FolderArgs)

\* Lines 55-58: the volumes, from the paths and objects given.
FromVolumesConvert ==
    /\ bpc = "start"
    /\ Val(bargs).op = "from_volumes"
    /\ LET raised == FirstArgError(ondisk, Val(bargs).bd_volumes)
       IN IF raised # None
          THEN /\ bpc' = "raised"
               /\ berr' = raised
               /\ bd_volumes' = bd_volumes
          ELSE /\ bpc' = "converted"
               /\ berr' = berr
               /\ bd_volumes' = [k \in 1..Len(Val(bargs).bd_volumes) |->
                                    ArgVolume(Val(bargs).bd_volumes[k])]
    /\ UNCHANGED <<ondisk, order, bargs, subdirs, bk, bresult, listed>>
    /\ UNCHANGED exceptBdmv

\* Lines 60-61: the root folder is given.
FromVolumesGiven ==
    /\ bpc = "converted"
    /\ Val(bargs).bdmv_folder # None
    /\ LET folder == Val(Val(bargs).bdmv_folder)
       IN IF Exists(Kind(ondisk, Resolve(folder)))
          THEN /\ bpc' = "done"
               /\ bresult' = Some(BDMV(Resolve(folder), bd_volumes))
               /\ berr' = berr
          ELSE /\ bpc' = "raised"
               /\ bresult' = bresult
               /\ berr' = Some(ErrPathMissing)
    /\ UNCHANGED <<ondisk, order, bargs, subdirs, bk, bd_volumes, listed>>
    /\ UNCHANGED exceptBdmv

\* Lines 63-65: the root folder is found from the volumes' paths.
FromVolumesInferred ==
    /\ bpc = "converted"
    /\ Val(bargs).bdmv_folder = None
    /\ LET all_path == [k \in 1..Len(bd_volumes) |-> bd_volumes[k].volume_path]
           common_path == Resolve(PathParts(all_path))
       IN IF Exists(Kind(ondisk, common_path))
          THEN /\ bpc' = "done"
               /\ bresult' = Some(BDMV(common_path, bd_volumes))
               /\ berr' = berr
          ELSE /\ bpc' = "raised"
               /\ bresult' = bresult
               /\ berr' = Some(ErrPathMissing)
    /\ UNCHANGED <<ondisk, order, bargs, subdirs, bk, bd_volumes, listed>>
    /\ UNCHANGED exceptBdmv

InitFromVolumes ==
    /\ FromVolumesInit
    /\ ParseIdle /\ VolIdle /\ PlaylistIdle /\ StampIdle /\ ParserIdle

NextFromVolumes ==
    \/ FromVolumesConvert
    \/ FromVolumesGiven
    \/ FromVolumesInferred

SpecFromVolumes == InitFromVolumes /\ [][NextFromVolumes]_vars

----------------------------------------------------------------------------
(* MplsItem.chapters_timestamp *)

\* What Convert.f2ts raises for a precision it has no format for.
ErrPrecision ==
    [type |-> "ValueError", msg |-> "the precision must be a multiple of 3"]

\* Accepting every precision.
AnyPrecision(precision) == precision = precision

\* The precisions Convert.f2ts formats: whole seconds, milli-, micro- and
\* nanoseconds.
PrecisionAccepted(precision) == precision \in {0, 3, 6, 9}

\* Convert.f2ts(chapter, self.framerate, precision=precison) for an accepted
\* precision: the timestamp of that frame at that rate and precision.
f2ts(chapter, framerate, precision) ==
    [frame |-> chapter, framerate |-> framerate, precision |-> precision]

\* The items the method is called on: up to MaxStampChapters chapters.
MaxStampChapters == 2
StampFrames == {0, 24, 1439}
StampFramerates == {Fraction(24000, 1001), Fraction(25, 1)}
StampItems ==
    {[chapters |-> c, framerate |-> r] :
        c \in ListsUpTo(StampFrames, MaxStampChapters), r \in StampFramerates}
Precisions == -3..12

StampInit ==
    /\ tpc = "start"
    /\ self_item \in {Some(x) : x \in StampItems}
    /\ precison \in Precisions
    /\ tresult = None
    /\ terr = None

\* Line 280: the comprehension calls Convert.f2ts once per chapter, and the
\* first call raises when the precision is not accepted.
ChaptersTimestamp ==
    /\ tpc = "start"
    /\ LET chapters == Val(self_item).chapters
       IN IF chapters # << >> /\ ~PrecisionAccepted(precison)
          THEN /\ tpc' = "raised"
               /\ terr' = Some(ErrPrecision)
               /\ tresult' = tresult
          ELSE /\ tpc' = "done"
               /\ terr' = terr
               /\ tresult' = Some([k \in 1..Len(chapters) |->
                                     f2ts(chapters[k], Val(self_item).framerate,
                                          precison)])
    /\ UNCHANGED <<self_item, precison>>
    /\ UNCHANGED exceptStamp

InitStamp ==
    StampInit /\ ParseIdle /\ VolIdle /\ PlaylistIdle /\ BdmvIdle /\ ParserIdle

NextStamp == ChaptersTimestamp

SpecStamp == InitStamp /\ [][NextStamp]_vars

----------------------------------------------------------------------------
(* ParseBD.__init__ *)

ErrTooMany == [type |-> "ValueError", msg |-> "Too many elements given"]
ErrNoEpisodes == [type |-> "ValueError", msg |-> "input file list is empty"]

\* A value that is an int, and a value that is a list or a tuple.
IntArg(n) == <<"int", n>>
SeqArg(l) == <<"seq", l>>
IsList(val) == val # << >> /\ val[1] = "seq"

\* vstools.to_arr: a list or tuple as a list, any other value as the list of it.
to_arr(val) == IF IsList(val) THEN val ELSE SeqArg(<<val[2]>>)

\* normalize_list, utils.py lines 170-193: whether it raises, and what it
\* returns when it does not.
NormalizeRaises(val, max_size) == IsList(val) /\ Len(val[2]) > max_size

\* The same padding with the id 0 whatever padding is given.
NormalizeZeroPadded(val, max_size, padding) ==
    IF ~IsList(val) THEN [k \in 1..max_size |-> val]
    ELSE val[2] \o [k \in 1..(max_size - Len(val[2])) |-> 0]

normalize_list(val, max_size, padding) ==
    IF ~IsList(val) THEN [k \in 1..max_size |-> val]
    ELSE val[2] \o [k \in 1..(max_size - Len(val[2])) |-> padding]

\* The playlist ids asked for, and at most MaxIds of them in a sequence.
EpIds == 0..3
MaxIds == 2
EpPlaylistArgs ==
    {IntArg(n) : n \in EpIds} \cup {SeqArg(l) : l \in ListsUpTo(EpIds, MaxIds)}

\* Every volume holds the same playlists: 00000.mpls with the clips 0 and 1,
\* 00001.mpls with the clip 2, and 00002.mpls without play items.
VolumePlaylists == {PlaylistId(0), PlaylistId(1), PlaylistId(2)}
PlaylistClips(stem) ==
    IF stem = PlaylistId(0) THEN <<0, 1>>
    ELSE IF stem = PlaylistId(1) THEN <<2>>
    ELSE << >>

\* The chapters of a clip: frame 0 and a frame that tells the volumes (those
\* below /bd/a from those below /bd/b) and the clips apart.
ClipChapters(volume, clip) ==
    <<0, 100 * (IF volume.volume_path[3] = "a" THEN 1 ELSE 2) + clip>>

\* The items of MplsFile.parse(playlist_file, self.m2ts_folder) on such a
\* volume; a clip's file name is its number in five digits.
PlaylistItemsOf(volume, stem) ==
    [k \in 1..Len(PlaylistClips(stem)) |->
        [m2ts_file |-> [folder |-> volume.m2ts_folder,
                        name |-> PlaylistClips(stem)[k]],
         chapters |-> ClipChapters(volume, PlaylistClips(stem)[k])]]

\* bd_vol.get_playlist(p): the exception it raises, or None.
GetPlaylistError(p) == PickError(Glob(VolumePlaylists, PlaylistId(p)))

\* sorted(eps, key=lambda x: x.name): stable, so equal names keep their order.
RECURSIVE InsertByName(_, _)
InsertByName(sorted, ep) ==
    IF sorted = << >> THEN <<ep>>
    ELSE IF sorted[Len(sorted)].name <= ep.name THEN Append(sorted, ep)
    ELSE Append(InsertByName(SubSeq(sorted, 1, Len(sorted) - 1), ep),
                sorted[Len(sorted)])

RECURSIVE SortedByName(_)
SortedByName(eps) ==
    IF eps = << >> THEN << >>
    ELSE InsertByName(SortedByName(SubSeq(eps, 1, Len(eps) - 1)), eps[Len(eps)])

\* The disks a ParseBD is built on: entries directly below the root only.
ParseDisks ==
    {d \in DiskTrees : \A q \in DOMAIN d : Len(q) <= Len(BdRoot) + 1}

\* The volume lists given instead of a folder.
ParseVolumeLists ==
    ListsUpTo({[as |-> "path", path |-> q] :
                  q \in {<<"/", "bd", "a", "a">>, <<"/", "bd", "b", "a">>}},
              MaxVolumes)

\* The method called and its original arguments.
Call(method, args) == Some([method |-> method, args |-> args])

ParserStart ==
    /\ ppc = "start"
    /\ ep_playlist \in EpPlaylistArgs
    /\ bd_items = << >>
    /\ pk = 0
    /\ episodes = << >>
    /\ episode_number = 0
    /\ op_ranges = << >>
    /\ ed_ranges = << >>
    /\ _ncops = << >>
    /\ _nceds = << >>
    /\ _ep_cache = << >>
    /\ mcall = Call("__init__", ep_playlist)
    /\ mresult = None
    /\ perr = None
    /\ _idx = 1
    /\ receiver = "A"
    /\ parked = None
    /\ fpc = "idle"
    /\ yielded = << >>
    /\ loops = 0

\* Lines 242-248: the exception of BDMV.from_path or BDMV.from_volumes leaves
\* the constructor.
ParseBDNoBdmv ==
    /\ ppc = "start"
    /\ bpc = "raised"
    /\ ppc' = "raised"
    /\ perr' = berr
    /\ UNCHANGED <<ep_playlist, bd_items, pk, episodes, episode_number, op_ranges,
                   ed_ranges, _ncops, _nceds, _ep_cache, mcall, mresult>>
    /\ UNCHANGED <<exceptParser, iterVars>>

\* Lines 252-254: vol_num, to_arr and normalize_list; the padding
\* ep_playlist[-1] is read before normalize_list is called.
ParseBDNormalize ==
    /\ ppc = "start"
    /\ bpc = "done"
    /\ LET vol_num == Len(Val(bresult).bd_volumes)
           arr == to_arr(ep_playlist)
       IN IF arr[2] = << >>
          THEN /\ ppc' = "raised"
               /\ perr' = Some(ErrIndex)
               /\ ep_playlist' = arr
          ELSE IF NormalizeRaises(arr, vol_num)
          THEN /\ ppc' = "raised"
               /\ perr' = Some(ErrTooMany)
               /\ ep_playlist' = arr
          ELSE /\ ppc' = "loop"
               /\ perr' = perr
               /\ ep_playlist' =
                    SeqArg(normalize_list(arr, vol_num, arr[2][Len(arr[2])]))
    /\ UNCHANGED <<bd_items, pk, episodes, episode_number, op_ranges,
                   ed_ranges, _ncops, _nceds, _ep_cache, mcall, mresult>>
    /\ UNCHANGED <<exceptParser, iterVars>>

\* Lines 257-258, one volume: self.items += bd_vol.get_playlist(p).items
ParseBDReadPlaylist ==
    /\ ppc = "loop"
    /\ pk < Len(Val(bresult).bd_volumes)
    /\ LET bd_vol == Val(bresult).bd_volumes[pk + 1]
           p == ep_playlist[2][pk + 1]
       IN IF GetPlaylistError(p) # None
          THEN /\ ppc' = "raised"
               /\ perr' = GetPlaylistError(p)
               /\ UNCHANGED <<bd_items, pk>>
          ELSE /\ bd_items' = bd_items \o PlaylistItemsOf(bd_vol, PlaylistId(p))
               /\ pk' = pk + 1
               /\ UNCHANGED <<ppc, perr>>
    /\ UNCHANGED <<ep_playlist, episodes, episode_number, op_ranges,
                   ed_ranges, _ncops, _nceds, _ep_cache, mcall, mresult>>
    /\ UNCHANGED <<exceptParser, iterVars>>

\* Line 260 and _set_episodes, lines 115-126; the files exist, MplsFile.parse
\* having located each of them.
ParseBDSetEpisodes ==
    /\ ppc = "loop"
    /\ pk = Len(Val(bresult).bd_volumes)
    /\ LET eps == [k \in 1..Len(bd_items) |-> bd_items[k].m2ts_file]
       IN IF eps = << >>
          THEN /\ ppc' = "raised"
               /\ perr' = Some(ErrNoEpisodes)
               /\ UNCHANGED <<episodes, episode_number, op_ranges, ed_ranges>>
          ELSE /\ ppc' = "done"
               /\ perr' = perr
               /\ episodes' = SortedByName(eps)
               /\ episode_number' = Len(eps)
               /\ op_ranges' = normalize_list(None, Len(eps), None)
               /\ ed_ranges' = normalize_list(None, Len(eps), None)
    /\ UNCHANGED <<ep_playlist, bd_items, pk, _ncops, _nceds, _ep_cache, mcall,
                   mresult>>
    /\ UNCHANGED <<exceptParser, iterVars>>

\* ParseBD(bdmv_path, ep_playlist) with a folder, a list of volumes, or a
\* folder and a list of volumes.
InitParseBD ==
    /\ \/ FromPathStart(ParseDisks)
       \/ FromVolumesStart(ParseVolumeLists, {None, Some(BdRoot)})
    /\ ParserStart
    /\ ParseIdle /\ VolIdle /\ PlaylistIdle /\ StampIdle

NextParseBD ==
    \/ FromPathEnsure
    \/ FromPathSubdirs
    \/ FromPathSearch
    \/ FromPathReturn
    \/ FromVolumesConvert
    \/ FromVolumesGiven
    \/ FromVolumesInferred
    \/ ParseBDNoBdmv
    \/ ParseBDNormalize
    \/ ParseBDReadPlaylist
    \/ ParseBDSetEpisodes

SpecParseBD == InitParseBD /\ [][NextParseBD]_vars

----------------------------------------------------------------------------
(* HasEpisode.get_episode and HasNCs.set_ncs, on a parser already built *)

\* What a call with more positional arguments than the function has raises.
ErrType ==
    [type |-> "TypeError", msg |-> "takes from 2 to 6 positional arguments"]

\* A parser holds at most this many episodes.
MaxEpisodes == 3

EpisodeFile(n) ==
    [folder |-> <<"/", "bd", "a", "BDMV", "STREAM">>, name |-> n]
EpisodeLists == {[k \in 1..n |-> EpisodeFile(k - 1)] : n \in 1..MaxEpisodes}

\* The state _set_episodes leaves: the files sorted by name, no range, and
\* the class-level dictionaries, which are empty.  Whether there is a second
\* parser is left to the specification.
ParserBuilt ==
    /\ ppc = "done"
    /\ ep_playlist = None
    /\ bd_items = << >>
    /\ pk = 0
    /\ episodes \in {SortedByName(eps) : eps \in EpisodeLists}
    /\ episode_number = Len(episodes)
    /\ op_ranges = normalize_list(None, episode_number, None)
    /\ ed_ranges = normalize_list(None, episode_number, None)
    /\ _ncops = << >>
    /\ _nceds = << >>
    /\ _ep_cache = << >>
    /\ mcall = None
    /\ mresult = None
    /\ perr = None
    /\ _idx = 1
    /\ receiver = "A"
    /\ fpc = "idle"
    /\ yielded = << >>
    /\ loops = 0

\* NCRange keys and values: an int or a tuple of two ints; a str or a Path.
KeyInt(n) == <<"int", n, n>>
KeyRange(start, end) == <<"tuple", start, end>>
StrNc(name) == <<"str", name>>
PathNc(name) == <<"Path", name>>

\* if isinstance(nc, str): nc = Path(nc)
StoredNc(nc) == IF nc # None /\ nc[1] = "str" THEN PathNc(nc[2]) ELSE nc

\* The episodes of a tuple key without its end.
EpisodesBeforeEnd(start, end) == start..(end - 1)

\* range(start, end + 1)
EpisodesOfRange(start, end) == start..end

\* dict.get(key): None for a key the dictionary does not hold.
Get(dict, key) == IF key \in DOMAIN dict THEN dict[key] ELSE None

\* The loop of _parse_nc_ranges, lines 31-38, over the items of the
\* dictionary in their order; a later item overwrites an earlier one.
RECURSIVE ParsedItems(_, _)
ParsedItems(pairs, ncs_dict) ==
    IF pairs = << >> THEN ncs_dict
    ELSE LET ep_range == Head(pairs)[1]
             nc == StoredNc(Head(pairs)[2])
             covered == IF ep_range[1] = "int" THEN {ep_range[2]}
                        ELSE EpisodesOfRange(ep_range[2], ep_range[3])
         IN ParsedItems(Tail(pairs),
                        [n \in covered \cup DOMAIN ncs_dict |->
                            IF n \in covered THEN nc ELSE ncs_dict[n]])

\* HasNCs._parse_nc_ranges(ncs), lines 22-40.
_parse_nc_ranges(ncs) == IF ncs = None THEN << >> ELSE ParsedItems(Val(ncs), << >>)

\* The dictionaries given to set_ncs: None, or at most MaxKeys items with
\* distinct keys.
MaxKeys == 2
NcKeys == {KeyInt(2), KeyRange(1, 2), KeyRange(2, 3), KeyRange(3, 1)}
NcValues == {StrNc("nc1"), PathNc("nc2")}
NcDicts ==
    {d \in ListsUpTo(NcKeys \X NcValues, MaxKeys) :
        \A a, b \in 1..Len(d) : a # b => d[a][1] # d[b][1]}
NcRangeArgs == {None} \cup {Some(d) : d \in NcDicts}
FewNcRangeArgs ==
    {None, Some(<<<<KeyInt(1), PathNc("nc3")>>>>),
     Some(<<<<KeyRange(1, 2), StrNc("nc4")>>>>)}

\* set_ncs, lines 52-53.
SetNcs(ncopsArgs, ncedsArgs) ==
    /\ ppc = "done"
    /\ \E ncops \in ncopsArgs, nceds \in ncedsArgs :
          /\ _ncops' = _parse_nc_ranges(ncops)
          /\ _nceds' = _parse_nc_ranges(nceds)
          /\ mcall' = Call("set_ncs", [ncops |-> ncops, nceds |-> nceds])
    /\ mresult' = None
    /\ perr' = None
    /\ UNCHANGED <<ppc, ep_playlist, bd_items, pk, episodes, episode_number,
                   op_ranges, ed_ranges, _ep_cache>>
    /\ UNCHANGED <<exceptParser, iterVars>>

\* EpisodeInfo.__init__(self, path, ep_num, op_range, ed_range, indexer,
\* **indexer_overrides), indexer.py lines 224-241: at most five positional
\* arguments after self.
EpisodeInfoMaxPositional == 5
EpisodeInfoError(positional) ==
    IF Len(positional) > EpisodeInfoMaxPositional THEN Some(ErrType) ELSE None
EpisodeInfo(positional, indexer_overrides) ==
    [indexed |-> [path |-> positional[1], indexer |-> positional[5],
                  overrides |-> indexer_overrides],
     ep_num |-> positional[2],
     op_range |-> positional[3],
     ed_range |-> positional[4]]

\* The keyword arguments given as indexer_overrides.
Overrides == {{}, {"cachefile"}}

\* get_episode(ep_num, force_reindex, **indexer_overrides), lines 139-148:
\* the cache it leaves, the exception it raises or None, and what it returns.
EpisodeOutcome(ep_num, force_reindex, indexer_overrides) ==
    LET reindex == force_reindex \/ indexer_overrides # {}
        cache == IF reindex /\ ep_num \in DOMAIN _ep_cache
                 THEN [n \in DOMAIN _ep_cache \ {ep_num} |-> _ep_cache[n]]
                 ELSE _ep_cache
        miss == ep_num \notin DOMAIN cache
        positional == <<episodes[ep_num], ep_num, op_ranges[ep_num],
                        ed_ranges[ep_num], Get(_ncops, ep_num),
                        Get(_nceds, ep_num), "indexer">>
    IN  IF miss /\ ep_num > Len(episodes)
        THEN [cache |-> cache, err |-> Some(ErrIndex), result |-> None]
        ELSE IF miss /\ EpisodeInfoError(positional) # None
        THEN [cache |-> cache, err |-> EpisodeInfoError(positional), result |-> None]
        ELSE IF miss
        THEN [cache |-> [n \in DOMAIN cache \cup {ep_num} |->
                            IF n = ep_num
                            THEN EpisodeInfo(positional, indexer_overrides)
                            ELSE cache[n]],
              err |-> None,
              result |-> Some(EpisodeInfo(positional, indexer_overrides))]
        ELSE [cache |-> cache, err |-> None, result |-> Some(cache[ep_num])]

\* A call of get_episode.
GetEpisode ==
    /\ ppc = "done"
    /\ \E ep_num \in 1..(MaxEpisodes + 1), force_reindex \in BOOLEAN,
          indexer_overrides \in Overrides :
          LET out == EpisodeOutcome(ep_num, force_reindex, indexer_overrides)
          IN /\ mcall' = Call("get_episode",
                              [ep_num |-> ep_num, force_reindex |-> force_reindex,
                               indexer_overrides |-> indexer_overrides])
             /\ perr' = out.err
             /\ mresult' = out.result
             /\ _ep_cache' = out.cache
    /\ UNCHANGED <<ppc, ep_playlist, bd_items, pk, episodes, episode_number,
                   op_ranges, ed_ranges, _ncops, _nceds>>
    /\ UNCHANGED <<exceptParser, iterVars>>

\* The lists given to set_op_ed_ranges: None, or a list of ranges of up to
\* one element more than a parser holds episodes.
OpEdRange == <<1, 10>>
RangeArgs ==
    {None} \cup {SeqArg([k \in 1..n |-> OpEdRange]) : n \in 0..(MaxEpisodes + 1)}
FewRangeArgs == {None, SeqArg(<<OpEdRange>>)}

\* set_op_ed_ranges, lines 164-166: the two assignments in their order, each
\* after its normalize_list call.
SetOpEdRanges(args) ==
    /\ ppc = "done"
    /\ \E op \in args, ed \in args :
          /\ mcall' = Call("set_op_ed_ranges", [op_ranges |-> op, ed_ranges |-> ed])
          /\ IF NormalizeRaises(op, episode_number)
             THEN /\ perr' = Some(ErrTooMany)
                  /\ UNCHANGED <<op_ranges, ed_ranges>>
             ELSE IF NormalizeRaises(ed, episode_number)
             THEN /\ perr' = Some(ErrTooMany)
                  /\ op_ranges' = normalize_list(op, episode_number, None)
                  /\ UNCHANGED ed_ranges
             ELSE /\ perr' = None
                  /\ op_ranges' = normalize_list(op, episode_number, None)
                  /\ ed_ranges' = normalize_list(ed, episode_number, None)
    /\ mresult' = None
    /\ UNCHANGED <<ppc, ep_playlist, bd_items, pk, episodes, episode_number,
                   _ncops, _nceds, _ep_cache>>
    /\ UNCHANGED <<exceptParser, iterVars>>

\* ParseBD.get_chapter(ep_num), line 270.
GetChapter ==
    /\ ppc = "done"
    /\ \E ep_num \in 1..(Len(bd_items) + 1) :
          /\ mcall' = Call("get_chapter", ep_num)
          /\ IF ep_num > Len(bd_items)
             THEN perr' = Some(ErrIndex) /\ mresult' = None
             ELSE perr' = None /\ mresult' = Some(bd_items[ep_num].chapters)
    /\ UNCHANGED <<ppc, ep_playlist, bd_items, pk, episodes, episode_number,
                   op_ranges, ed_ranges, _ncops, _nceds, _ep_cache>>
    /\ UNCHANGED <<exceptParser, iterVars>>

\* At most this many `for` loops are run over a parser.
MaxLoops == 2

\* `for episode in parser`: iter(parser), which is __iter__, lines 169-170,
\* returns the parser itself and changes nothing.
ForStart ==
    /\ ppc = "done"
    /\ fpc # "running"
    /\ loops < MaxLoops
    /\ fpc' = "running"
    /\ yielded' = << >>
    /\ loops' = loops + 1
    /\ mcall' = Call("__iter__", << >>)
    /\ mresult' = None
    /\ perr' = None
    /\ UNCHANGED <<ppc, ep_playlist, bd_items, pk, episodes, episode_number,
                   op_ranges, ed_ranges, _ncops, _nceds, _ep_cache, _idx,
                   receiver, parked>>
    /\ UNCHANGED exceptParser

\* One next(parser) of the loop, __next__, lines 172-179: StopIteration ends
\* the loop, any other exception leaves it.
ForNext ==
    /\ fpc = "running"
    /\ LET out == EpisodeOutcome(_idx, FALSE, {})
       IN /\ _ep_cache' = out.cache
          /\ mresult' = out.result
          /\ IF out.err # None /\ Val(out.err).type = "IndexError"
             THEN /\ fpc' = "stopped"
                  /\ perr' = None
                  /\ UNCHANGED <<yielded, _idx>>
             ELSE IF out.err # None
             THEN /\ fpc' = "raised"
                  /\ perr' = out.err
                  /\ UNCHANGED <<yielded, _idx>>
             ELSE /\ yielded' = Append(yielded, Val(out.result))
                  /\ _idx' = _idx + 1
                  /\ perr' = None
                  /\ UNCHANGED fpc
    /\ mcall' = Call("__next__", << >>)
    /\ UNCHANGED <<ppc, ep_playlist, bd_items, pk, episodes, episode_number,
                   op_ranges, ed_ranges, _ncops, _nceds, receiver, parked, loops>>
    /\ UNCHANGED exceptParser

\* The attributes that belong to one parser object.  _ep_cache is not among
\* them: line 112 creates one dictionary in the class body and get_episode
\* writes into it, so every parser reads and writes the same dictionary.
InstanceAttributes ==
    [episodes |-> episodes, episode_number |-> episode_number,
     op_ranges |-> op_ranges, ed_ranges |-> ed_ranges,
     _ncops |-> _ncops, _nceds |-> _nceds, _idx |-> _idx]

\* A second parser, over files of another folder.
OtherEpisodeFile(n) ==
    [folder |-> <<"/", "bd", "b", "BDMV", "STREAM">>, name |-> n]
OtherParsers ==
    {[episodes |-> eps, episode_number |-> Len(eps),
      op_ranges |-> normalize_list(None, Len(eps), None),
      ed_ranges |-> normalize_list(None, Len(eps), None),
      _ncops |-> << >>, _nceds |-> << >>, _idx |-> 1] :
        eps \in {[k \in 1..n |-> OtherEpisodeFile(k - 1)] : n \in 1..MaxEpisodes}}

\* The caller turns to the other parser: the next calls are made on it.
OtherParser ==
    /\ ppc = "done"
    /\ parked # None
    /\ fpc # "running"
    /\ receiver' = IF receiver = "A" THEN "B" ELSE "A"
    /\ parked' = Some(InstanceAttributes)
    /\ episodes' = Val(parked).episodes
    /\ episode_number' = Val(parked).episode_number
    /\ op_ranges' = Val(parked).op_ranges
    /\ ed_ranges' = Val(parked).ed_ranges
    /\ _ncops' = Val(parked)._ncops
    /\ _nceds' = Val(parked)._nceds
    /\ _idx' = Val(parked)._idx
    /\ mcall' = None
    /\ mresult' = None
    /\ perr' = None
    /\ UNCHANGED <<ppc, ep_playlist, bd_items, pk, _ep_cache, fpc, yielded, loops>>
    /\ UNCHANGED exceptParser

InitBuilt ==
    /\ ParserBuilt
    /\ parked = None
    /\ ParseIdle /\ VolIdle /\ PlaylistIdle /\ BdmvIdle /\ StampIdle

NextEpisode ==
    \/ GetEpisode
    \/ SetNcs(FewNcRangeArgs, FewNcRangeArgs)

SpecEpisode == InitBuilt /\ [][NextEpisode]_vars

NextNcs == SetNcs(NcRangeArgs, FewNcRangeArgs)

SpecNcs == InitBuilt /\ [][NextNcs]_vars

\* The calls that set and read the ranges and the NCs of one parser.
NextCalls ==
    \/ GetEpisode
    \/ SetNcs(FewNcRangeArgs, FewNcRangeArgs)
    \/ SetOpEdRanges(FewRangeArgs)

SpecCalls == InitBuilt /\ [][NextCalls]_vars

\* set_op_ed_ranges alone.
NextRanges == SetOpEdRanges(RangeArgs)

SpecRanges == InitBuilt /\ [][NextRanges]_vars

\* `for` loops over one parser.
NextIter ==
    \/ ForStart
    \/ ForNext
    \/ GetEpisode

SpecIter == InitBuilt /\ [][NextIter]_vars

\* Two parsers over different files and the calls made on them in any order.
InitTwoParsers ==
    /\ ParserBuilt
    /\ parked \in {Some(o) : o \in OtherParsers}
    /\ ParseIdle /\ VolIdle /\ PlaylistIdle /\ BdmvIdle /\ StampIdle

NextTwoParsers ==
    \/ GetEpisode
    \/ SetOpEdRanges(FewRangeArgs)
    \/ OtherParser

SpecTwoParsers == InitTwoParsers /\ [][NextTwoParsers]_vars

\* A ParseBD built from volumes, then asked for chapters.
NextChapter ==
    \/ NextParseBD
    \/ GetChapter

SpecChapter == InitParseBD /\ [][NextChapter]_vars

----------------------------------------------------------------------------
(* Properties of MplsFile.parse *)

\* The per-item loop was entered: both tables were decoded and are lists.
LoopEntered ==
    /\ items # Unbound /\ items # None
    /\ marks # Unbound /\ marks # None

\* Iteration k (1-based position in play_items) has run: it built its item
\* or it raised.
Attempted(k) ==
    /\ LoopEntered
    /\ k \in 1..Len(Val(items))
    /\ \/ i > k - 1
       \/ i = k - 1 /\ pc = "raised"

Returned == pc = "done" /\ result # None

\* How often v occurs in seq.
Count(seq, v) == Cardinality({k \in 1..Len(seq) : seq[k] = v})

SortedAscending(seq) == \A k \in 1..(Len(seq) - 1) : seq[k] <= seq[k + 1]

Timestamps(ms) == [k \in 1..Len(ms) |-> ms[k].mark_timestamp]

\* C1: a successful parse returns exactly one MplsItem per play-item, and the
\* k-th MplsItem is built from the k-th play-item (its raw record and its
\* media file), whatever the order of the marks and of the file names.
C1_ItemsInPlayItemOrder ==
    Returned =>
        /\ Len(Val(result).items) = Len(Val(items))
        /\ \A k \in 1..Len(Val(items)) :
            /\ Val(result).items[k].item_data = Val(items)[k]
            /\ Val(result).items[k].m2ts_file = FilePath(Val(items)[k])

\* Two play-items whose file names descend, with a mark of the second item
\* ahead of a mark of the first in the mark table.
C1_Witness ==
    /\ Returned
    /\ Len(Val(items)) = 2
    /\ Val(items)[1].clip_information_filename = Some("00001")
    /\ Val(items)[2].clip_information_filename = Some("00000")
    /\ Len(Val(marks)) >= 2
    /\ Val(marks)[1].ref_to_play_item_id = 1
    /\ Val(marks)[2].ref_to_play_item_id = 0

\* C2: the chapters of every MplsItem built are sorted ascending and none is
\* negative, for every order of the marks in the mark table.
C2_ChaptersSortedNonNegative ==
    \A k \in 1..Len(mpls_items) :
        /\ SortedAscending(mpls_items[k].chapters)
        /\ \A c \in 1..Len(mpls_items[k].chapters) : mpls_items[k].chapters[c] >= 0

\* The item's marks stand in descending tick order in the table, the earliest
\* of them before intime, and the item has distinct chapters.
C2_Witness ==
    /\ Returned
    /\ Len(Val(marks)) = 3
    /\ \A k \in 1..3 : Val(marks)[k].ref_to_play_item_id = 0
    /\ Val(marks)[1].mark_timestamp > Val(marks)[2].mark_timestamp
    /\ Val(marks)[2].mark_timestamp > Val(marks)[3].mark_timestamp
    /\ Val(marks)[3].mark_timestamp < Val(Val(items)[1].intime)
    /\ Val(result).items[1].chapters[1] = 0
    /\ Val(result).items[1].chapters[3] > Val(result).items[1].chapters[2]

\* C3: the item_marks of the item at index i are exactly the marks whose
\* ref_to_play_item_id is i, each once, in ascending mark_timestamp order, with
\* one chapter per item mark; a mark referring to no play-item is in no item's
\* item_marks, adds no MplsItem and raises nothing (the only exceptions of the
\* loop are those of the play-item checks).
C3_ItemMarksAreTheReferringMarks ==
    /\ LoopEntered =>
        /\ Len(mpls_items) <= Len(Val(items))
        /\ \A k \in 1..Len(mpls_items) :
            /\ \A m \in PlaylistMarks :
                Count(mpls_items[k].item_marks, m) =
                    IF m.ref_to_play_item_id = k - 1 THEN Count(Val(marks), m) ELSE 0
            /\ SortedAscending(Timestamps(mpls_items[k].item_marks))
            /\ Len(mpls_items[k].chapters) = Len(mpls_items[k].item_marks)
        /\ pc = "raised" =>
            /\ err \in {Some(ErrNoMedia), Some(ErrPathMissing), Some(ErrNoIntime),
                        Some(ErrNoFramerate), Some(ErrKey)}
            /\ \E k \in 1..Len(Val(items)) :
                \/ Val(items)[k] \notin WellFormedItems
                \/ FilePath(Val(items)[k]) \notin fs.stream
    /\ Returned => Len(Val(result).items) = Len(Val(items))

\* Two play-items; the table holds a mark of item 1, a mark referring to no
\* play-item, and an earlier mark of item 1 after them.
C3_Witness ==
    /\ Returned
    /\ Len(Val(items)) = 2
    /\ Len(Val(marks)) = 3
    /\ Val(marks)[1] = PlaylistMark(1, 45000)
    /\ Val(marks)[2].ref_to_play_item_id = 2
    /\ Val(marks)[3] = PlaylistMark(1, 0)
    /\ Val(result).items[1].item_marks = << >>
    /\ Val(result).items[2].item_marks = <<PlaylistMark(1, 0), PlaylistMark(1, 45000)>>

\* The input of C4: frame rate 24000/1001 (code 1), intime 0, and the three
\* marks at ticks 0, 45000 and 2700000, in any order of the table.
C4_Input ==
    /\ LoopEntered
    /\ Val(items) = <<PlayItem(Some("00000"), Some("M2TS"), Some(0), Stn(1))>>
    /\ Len(Val(marks)) = 3
    /\ \A k \in 1..3 : Val(marks)[k].ref_to_play_item_id = 0
    /\ {Val(marks)[k].mark_timestamp : k \in 1..3} = {0, 45000, 2700000}

\* C4 as claimed: on that input the chapters are [0, 1, 60].
C4_AsClaimed ==
    (C4_Input /\ Returned) => Val(result).items[1].chapters = <<0, 1, 60>>

\* c is an integer nearest to (d / 45000) * num / den, for d >= 0 ticks and
\* the frame rate num / den.
NearestFrame(c, d, fps) ==
    LET s == Fraction(d, TicksPerSecond)
    IN  2 * Abs(c * s[2] * fps[2] - s[1] * fps[1]) <= s[2] * fps[2]

\* C4 (amended): every chapter is round(((mark_tick - offset) / 45000) *
\* frame_rate), the offset being the smaller of intime and the earliest mark;
\* at 24000/1001 with intime 0 and marks at ticks 0, 45000 and 2700000 the
\* chapters are [0, 24, 1439].
C4_ChaptersAreRoundedFrames ==
    /\ \A k \in 1..Len(mpls_items) :
        LET it == mpls_items[k]
            ts == Timestamps(it.item_marks)
            lowest == CHOOSE t \in {Val(it.item_data.intime)} \cup {ts[c] : c \in 1..Len(ts)} :
                        \A u \in {Val(it.item_data.intime)} \cup {ts[c] : c \in 1..Len(ts)} : t <= u
        IN  \A c \in 1..Len(it.chapters) :
                NearestFrame(it.chapters[c], ts[c] - lowest, it.framerate)
    /\ (C4_Input /\ Returned) => Val(result).items[1].chapters = <<0, 24, 1439>>

\* The three marks of C4 with the latest one first in the table, parsed to the end.
C4_Witness ==
    /\ C4_Input
    /\ Returned
    /\ Val(marks)[1].mark_timestamp = 2700000
    /\ Len(Val(result).items[1].chapters) = 3

\* The play-item lacks a media reference: its file name or its codec
\* identifier is None.
LacksMediaReference(item) ==
    \/ item.clip_information_filename = None
    \/ item.clip_codec_identifier = None

\* C5 as claimed: an iteration over a play-item whose file name or codec
\* identifier is None (either one) raises the missing-media-reference error.
C5_AsClaimed ==
    \A k \in 1..MaxItems :
        (Attempted(k) /\ LacksMediaReference(Val(items)[k])) =>
            /\ pc = "raised"
            /\ i = k - 1
            /\ err = Some(ErrNoMedia)

\* The iteration over the play-item reaches the frame-rate lookup: the checks
\* before it pass.
ReachesLookup(item) ==
    /\ ~LacksMediaReference(item)
    /\ FilePath(item) \in fs.stream
    /\ item.intime # None
    /\ HasFramerate(item)

\* C6 as claimed: an iteration that reaches the lookup with a frame-rate code
\* that is no key of the table raises the unknown-frame-rate ValueError.
C6_AsClaimed ==
    \A k \in 1..MaxItems :
        (/\ Attempted(k)
         /\ ReachesLookup(Val(items)[k])
         /\ fps_n(Val(items)[k]) \notin DOMAIN FRAMERATE) =>
            /\ pc = "raised"
            /\ i = k - 1
            /\ err = Some(ErrUnknownFramerate)

Finished == pc \in {"done", "raised"}

\* C7 as claimed: a parse whose decoded mark list is None or empty ends with
\* the no-playlist-marks error.
C7_AsClaimed ==
    (Finished /\ marks # Unbound /\ marks \in {None, Some(<< >>)}) =>
        /\ pc = "raised"
        /\ err = Some(ErrNoMarks)

\* C8 as claimed: a parse whose decoded play-item list is None or empty ends
\* with the no-play-items error, and no MplsFile with zero items is returned.
C8_AsClaimed ==
    /\ (Finished /\ items # Unbound /\ items \in {None, Some(<< >>)}) =>
        /\ pc = "raised"
        /\ err = Some(ErrNoPlayItems)
    /\ Returned => Val(result).items # << >>

\* The play-item passes every check of its iteration.
PassesChecks(item) ==
    /\ ~MediaReferenceMissing(item)
    /\ FilePath(item) \in fs.stream
    /\ item.intime # None
    /\ HasFramerate(item)
    /\ fps_n(item) \in DOMAIN FRAMERATE

\* C9: the parse is fail-fast and returns no partial result: an exception and
\* a returned MplsFile exclude each other, the loop stops at the first
\* play-item that fails a check (the items built before it stay in the local
\* list and are not returned), and a returned MplsFile means every play-item
\* passed every check.
C9_FailFastNoPartialResult ==
    /\ err # None <=> pc = "raised"
    /\ result # None <=> pc = "done"
    /\ (LoopEntered /\ pc = "raised") =>
        /\ i < Len(Val(items))
        /\ ~PassesChecks(Val(items)[i + 1])
        /\ \A k \in 1..i : PassesChecks(Val(items)[k])
        /\ Len(mpls_items) = i
    /\ Returned =>
        /\ \A k \in 1..Len(Val(items)) : PassesChecks(Val(items)[k])
        /\ Len(Val(result).items) = Len(Val(items))

\* The second play-item fails a check after the first one was built.
C9_Witness ==
    /\ LoopEntered
    /\ pc = "raised"
    /\ i = 1
    /\ Len(mpls_items) = 1
    /\ result = None

\* C10 as claimed: from_path on an existing folder succeeds exactly when BDMV
\* and CERTIFICATE are both directories, with mpls_folder = V/BDMV/PLAYLIST and
\* m2ts_folder = V/BDMV/STREAM, and raises the invalid-volume error otherwise.
C10_AsClaimed ==
    (vpc \in {"done", "raised"} /\ vol # None) =>
        IF Val(vol).BDMV = "dir" /\ Val(vol).CERTIFICATE = "dir"
        THEN /\ vpc = "done"
             /\ vresult = Some(
                    [volume_path |-> Resolve(Val(vol).volume_path),
                     mpls_folder |-> Resolve(Val(vol).volume_path) \o <<"BDMV", "PLAYLIST">>,
                     m2ts_folder |-> Resolve(Val(vol).volume_path) \o <<"BDMV", "STREAM">>])
        ELSE /\ vpc = "raised"
             /\ verr = Some(ErrInvalidVolume)

----------------------------------------------------------------------------
(* Properties of BdVolume.get_playlist *)

\* get_playlist left, by a return or by an exception.
PlaylistLeft == gpc \in {"done", "raised"}

PlaylistFileExists == PlaylistId(playlist_idx) \in mpls_dir

\* C11 as the specification states it: the id is padded to five digits; when
\* no file PLAYLIST/<id>.mpls exists the call raises the ValueError "No
\* playlist file found with id", and when the file exists the call returns
\* MplsFile.parse of that file with this volume's STREAM folder.
C11_AsClaimed ==
    PlaylistLeft =>
        IF PlaylistFileExists
        THEN /\ gerr = None
             /\ gresult = Some(MplsFileParse(Val(vresult),
                                             PlaylistId(playlist_idx)))
             /\ Len(PlaylistId(playlist_idx)) >= PlaylistIdWidth
        ELSE /\ gresult = None
             /\ gerr = Some(ErrNoPlaylist)

----------------------------------------------------------------------------
(* Properties of BDMV.from_volumes and BDMV.from_path *)

BdmvReturned == bpc = "done"
BdmvLeft == bpc \in {"done", "raised"}
RootInferred ==
    /\ bargs # None
    /\ Val(bargs).op = "from_volumes"
    /\ Val(bargs).bdmv_folder = None

VolumePathsOf(volumes) == {volumes[k].volume_path : k \in 1..Len(volumes)}

\* The longest path that is a prefix of every path of a non-empty set.
LongestCommonPrefix(paths) ==
    LET first == CHOOSE p \in paths : TRUE
        common == {n \in 0..Len(first) :
                     \A q \in paths : IsPrefix(SubSeq(first, 1, n), q)}
    IN SubSeq(first, 1, CHOOSE n \in common : \A m \in common : m <= n)

\* C12 as the specification states it: without an explicit root, the root of
\* the BDMV that from_volumes returns is the longest common prefix of the
\* volumes' absolute path segments; segments after the first position where
\* the volumes differ never contribute.
C12_AsClaimed ==
    (BdmvReturned /\ RootInferred /\ bd_volumes # << >>) =>
        Val(bresult).bdmv_folder = LongestCommonPrefix(VolumePathsOf(bd_volumes))

\* C13 as the specification states it: in every BDMV returned, each volume's
\* volume_path is the root folder or lies below it.
C13_AsClaimed ==
    BdmvReturned =>
        \A k \in 1..Len(Val(bresult).bd_volumes) :
            IsPrefix(Val(bresult).bdmv_folder, Val(bresult).bd_volumes[k].volume_path)

RootKind == Kind(ondisk, BdRoot)
FromPathCalled == bargs # None /\ Val(bargs).op = "from_path"

\* The directories at and below a directory, parents before children and
\* siblings in listing order.
RECURSIVE Preorder(_, _, _)
RECURSIVE PreorderAll(_, _, _)
Preorder(d, ord, dir) == <<dir>> \o PreorderAll(d, ord, Subdirs(d, ord, dir))
PreorderAll(d, ord, dirs) ==
    IF dirs = << >> THEN << >>
    ELSE Preorder(d, ord, Head(dirs)) \o PreorderAll(d, ord, Tail(dirs))

\* The volumes at and below an immediate subdirectory S, in that order.
VolumesUnder(S) ==
    SelectSeq(Preorder(ondisk, order, S), LAMBDA x : Kind(ondisk, x) = "volume")

ImmediateSubdirs == Subdirs(ondisk, order, BdRoot)

\* C14: from_path returns, in listing order, one volume for each immediate
\* subdirectory S whose subtree holds a volume and none for the others: S
\* itself when S holds BDMV and CERTIFICATE, else the first volume a
\* depth-first search below S meets; so there are at most as many volumes as
\* immediate subdirectories.
C14_OneVolumePerSubdir ==
    (BdmvReturned /\ FromPathCalled) =>
        LET holding == SelectSeq(ImmediateSubdirs,
                                 LAMBDA S : VolumesUnder(S) # << >>)
            volumes == Val(bresult).bd_volumes
        IN /\ Len(volumes) = Len(holding)
           /\ Len(volumes) <= Len(ImmediateSubdirs)
           /\ \A k \in 1..Len(holding) :
                /\ volumes[k].volume_path = VolumesUnder(holding[k])[1]
                /\ Kind(ondisk, holding[k]) = "volume"
                      => volumes[k].volume_path = holding[k]

\* A subdirectory that is no volume holds two volumes, and one was returned.
C14_Witness ==
    /\ BdmvReturned /\ FromPathCalled
    /\ \E k \in 1..Len(ImmediateSubdirs) :
          /\ Kind(ondisk, ImmediateSubdirs[k]) = "dir"
          /\ Len(VolumesUnder(ImmediateSubdirs[k])) >= 2
    /\ Len(Val(bresult).bd_volumes) = 1

\* C15 as the specification states it: from_path raises the path-missing
\* ValueError when root does not exist and otherwise returns a BDMV.
C15_AsClaimed ==
    (BdmvLeft /\ FromPathCalled) =>
        IF RootKind = "absent"
        THEN bresult = None /\ berr = Some(ErrPathMissing)
        ELSE berr = None /\ bresult # None

\* C15: from_path raises the path-missing ValueError when root does not
\* exist, NotADirectoryError when root is not a directory, and for a root
\* that is a directory returns a BDMV of that root, whose bd_volumes is empty
\* when no subdirectory holds a volume.
C15_ReturnsForEveryDirectory ==
    (BdmvLeft /\ FromPathCalled) =>
        CASE RootKind = "absent" -> bresult = None /\ berr = Some(ErrPathMissing)
          [] RootKind = "file" -> bresult = None /\ berr = Some(ErrNotADirectory)
          [] OTHER ->
                /\ berr = None
                /\ bresult = Some(BDMV(BdRoot, bd_volumes))
                /\ (\A k \in 1..Len(ImmediateSubdirs) :
                        VolumesUnder(ImmediateSubdirs[k]) = << >>)
                      => bd_volumes = << >>

\* The root holds subdirectories, none of them holds a volume, and the call
\* returned a BDMV without volumes.
C15_Witness ==
    /\ BdmvReturned /\ FromPathCalled
    /\ Len(ImmediateSubdirs) >= 2
    /\ Val(bresult).bd_volumes = << >>

----------------------------------------------------------------------------
(* Properties of MplsItem.chapters_timestamp *)

StampLeft == tpc \in {"done", "raised"}
NonNegativeMultipleOf3(p) == p >= 0 /\ p % 3 = 0

\* C16 as the specification states it: for every item, the empty-chaptered
\* one included, a precision that is not a non-negative multiple of 3 raises.
C16_AsClaimed ==
    (StampLeft /\ ~NonNegativeMultipleOf3(precison)) =>
        tresult = None /\ terr # None

\* C16: for an item with at least one chapter a precision that is not a
\* non-negative multiple of 3 raises; for an item without chapters the call
\* returns the empty list for every precision.
C16_ValidatedPerChapter ==
    StampLeft =>
        IF Val(self_item).chapters = << >>
        THEN terr = None /\ tresult = Some(<< >>)
        ELSE ~NonNegativeMultipleOf3(precison) =>
                tresult = None /\ terr = Some(ErrPrecision)

\* An item without chapters was asked for a precision that is no multiple of
\* 3 and the empty list came back.
C16_Witness ==
    /\ tpc = "done"
    /\ Val(self_item).chapters = << >>
    /\ ~NonNegativeMultipleOf3(precison)
    /\ tresult = Some(<< >>)

----------------------------------------------------------------------------
(* Properties of ParseBD.__init__ *)

\* The BDMV was found and the constructor went on to the playlist ids.
IdsReached == bpc = "done" /\ ppc \in {"loop", "done", "raised"}

\* The ids as given: a single int counts as one id.
GivenIds == to_arr(Val(mcall).args)[2]

\* The id the claim assigns to the k-th volume.
IdOfVolume(k) ==
    IF k <= Len(GivenIds) THEN GivenIds[k] ELSE GivenIds[Len(GivenIds)]

RECURSIVE ItemsOfFirst(_)
ItemsOfFirst(n) ==
    IF n = 0 THEN << >>
    ELSE ItemsOfFirst(n - 1)
         \o PlaylistItemsOf(Val(bresult).bd_volumes[n], PlaylistId(IdOfVolume(n)))

\* C17: the k-th volume is read with the k-th given id and the volumes beyond
\* the given ids with the last one, so the items collected after pk volumes
\* are those of these playlists in volume order; more ids than volumes raise
\* the "Too many elements" ValueError before any playlist is read.
C17_IdsAssignedByPosition ==
    IdsReached =>
        /\ Len(GivenIds) > Len(Val(bresult).bd_volumes) =>
              /\ ppc = "raised"
              /\ perr = Some(ErrTooMany)
              /\ pk = 0 /\ bd_items = << >>
        /\ bd_items = ItemsOfFirst(pk)
        /\ (ppc = "raised" /\ pk < Len(Val(bresult).bd_volumes)
            /\ perr = Some(ErrIndex) /\ GivenIds # << >>) =>
              GetPlaylistError(IdOfVolume(pk + 1)) # None

\* Two volumes were read with a single id given in a sequence.
C17_Witness ==
    /\ ppc = "done"
    /\ IsList(Val(mcall).args)
    /\ Len(GivenIds) = 1
    /\ Len(Val(bresult).bd_volumes) = 2
    /\ pk = 2
    /\ Len(bd_items) >= 2

\* The recursive search of from_path ended without a volume.
NoVolumeFound ==
    /\ bpc = "done"
    /\ Val(bargs).op = "from_path"
    /\ Val(bresult).bd_volumes = << >>

\* C18 as the specification states it: when the recursive search finds no
\* volume the constructor raises ValueError whatever ep_playlist is, and no
\* parser is ever built with zero episodes.
C18_AsClaimed ==
    /\ (ppc \in {"done", "raised"} /\ NoVolumeFound) =>
          ppc = "raised" /\ Val(perr).type = "ValueError"
    /\ ppc = "done" => episodes # << >>

----------------------------------------------------------------------------
(* Properties of HasEpisode.get_episode *)

LastCallWas(method) == mcall # None /\ Val(mcall).method = method

----------------------------------------------------------------------------
(* Properties of HasNCs.set_ncs *)

ItemsOf(ncs) == IF ncs = None THEN << >> ELSE Val(ncs)

\* The episodes a key names: the int itself, or every n with s <= n <= e.
EpisodesOfKey(key) ==
    IF key[1] = "int" THEN {key[2]} ELSE {n \in key[2]..key[3] : TRUE}

EpisodesNamed(ncs) ==
    UNION {EpisodesOfKey(ItemsOf(ncs)[k][1]) : k \in 1..Len(ItemsOf(ncs))}

\* Every key maps each of its episodes to its own value.
EveryKeyMapped(ncs, dict) ==
    /\ DOMAIN dict = EpisodesNamed(ncs)
    /\ \A k \in 1..Len(ItemsOf(ncs)) :
          \A n \in EpisodesOfKey(ItemsOf(ncs)[k][1]) :
              dict[n] = StoredNc(ItemsOf(ncs)[k][2])

\* C20 as the specification states it: after set_ncs, each tuple key (s, e)
\* of the call maps every n with s <= n <= e to its value, each int key maps
\* that episode to its value, and nothing else is mapped.
C20_AsClaimed ==
    LastCallWas("set_ncs") =>
        /\ EveryKeyMapped(Val(mcall).args.ncops, _ncops)
        /\ EveryKeyMapped(Val(mcall).args.nceds, _nceds)

\* Each named episode maps to the value of the last key that names it.
LastKeyMapped(ncs, dict) ==
    LET last(n) == CHOOSE k \in 1..Len(ItemsOf(ncs)) :
                      /\ n \in EpisodesOfKey(ItemsOf(ncs)[k][1])
                      /\ \A j \in (k + 1)..Len(ItemsOf(ncs)) :
                            n \notin EpisodesOfKey(ItemsOf(ncs)[j][1])
    IN dict = [n \in EpisodesNamed(ncs) |-> StoredNc(ItemsOf(ncs)[last(n)][2])]

\* C20: after any sequence of set_ncs calls the NCOP and NCED mappings are
\* those of the last call alone: an episode is mapped exactly when an int key
\* equals it or a tuple key (s, e) has s <= n <= e, and it maps to the value
\* of the last such key in the dictionary's order.
C20_LastCallLastKey ==
    LastCallWas("set_ncs") =>
        /\ LastKeyMapped(Val(mcall).args.ncops, _ncops)
        /\ LastKeyMapped(Val(mcall).args.nceds, _nceds)

\* The last call gave a tuple key of two episodes and a second key naming one
\* of them with another value.
C20_Witness ==
    /\ LastCallWas("set_ncs")
    /\ Val(mcall).args.ncops = Some(<<<<KeyRange(1, 2), StrNc("nc1")>>,
                                      <<KeyInt(2), PathNc("nc2")>>>>)
    /\ _ncops = (1 :> PathNc("nc1")) @@ (2 :> PathNc("nc2"))
    /\ DOMAIN _nceds = {1, 2}

----------------------------------------------------------------------------
(* Properties of the start offset, the frame-rate checks, the file handle   *)
(* and the rounding of MplsFile.parse                                       *)

\* The least element of a non-empty set of ticks.
Lowest(S) == CHOOSE t \in S : \A u \in S : t <= u

\* The ticks of the marks of the table that refer to the play-item at idx.
TicksReferring(ms, idx) ==
    {ms[j].mark_timestamp : j \in {n \in 1..Len(ms) : ms[n].ref_to_play_item_id = idx}}

\* The iteration over the play-item reaches the intime test: its media file
\* was located.
ReachesIntimeCheck(item) ==
    /\ ~MediaReferenceMissing(item)
    /\ FilePath(item) \in fs.stream

\* C21: the chapters of every MplsItem built are the frames of the mark ticks
\* counted from min(intime, smallest tick of the marks referring to the item),
\* which is intime when no mark refers to it; the first chapter is 0 when the
\* earliest mark is not after intime and is otherwise the rounded frame count
\* of (earliest mark - intime), so it is 0 only within half a frame of
\* intime; and an iteration that reaches the intime test on an item without
\* intime raises the intime error.
C21_OffsetIsEarliestTick ==
    /\ \A k \in 1..Len(mpls_items) :
        LET it == mpls_items[k]
            intime == Val(it.item_data.intime)
            ticks == TicksReferring(Val(marks), k - 1)
            start == Lowest({intime} \cup ticks)
            ts == Timestamps(it.item_marks)
        IN  /\ ticks = {} => start = intime /\ it.chapters = << >>
            /\ \A c \in 1..Len(ts) :
                it.chapters[c] = seconds2f(SecondsOfTicks(ts[c] - start), it.framerate)
            /\ ticks # {} =>
                /\ Len(it.chapters) >= 1
                /\ Lowest(ticks) <= intime => it.chapters[1] = 0
                /\ it.chapters[1] # 0 => Lowest(ticks) > intime
                /\ Lowest(ticks) > intime =>
                    NearestFrame(it.chapters[1], Lowest(ticks) - intime, it.framerate)
    /\ \A k \in 1..MaxItems :
        (/\ Attempted(k)
         /\ ReachesIntimeCheck(Val(items)[k])
         /\ Val(items)[k].intime = None) =>
            /\ pc = "raised"
            /\ i = k - 1
            /\ err = Some(ErrNoIntime)

\* The item starts at tick 900 and two marks refer to it, the later one first
\* in the table and the earlier one before intime: the chapters count from the
\* earlier mark.
C21_Witness ==
    /\ Returned
    /\ Val(Val(items)[1].intime) = 900
    /\ Len(Val(marks)) >= 2
    /\ Val(marks)[1] = PlaylistMark(0, 98100)
    /\ Val(marks)[2] = PlaylistMark(0, 0)
    /\ Len(Val(result).items[1].chapters) = 2
    /\ Val(result).items[1].chapters[1] = 0
    /\ Val(result).items[1].chapters[2] > 0

\* The iteration over the play-item reaches the frame-rate test.
ReachesFramerateCheck(item) ==
    /\ ReachesIntimeCheck(item)
    /\ item.intime # None

\* The play-item carries a frame-rate code that the lookup table holds.
UsableFramerate(item) == HasFramerate(item) /\ fps_n(item) \in DOMAIN FRAMERATE

\* C22 as the specification states it: a frame-rate error leaves the parse
\* only at a play-item that at least one mark refers to, and an iteration that
\* reaches the frame-rate test on a play-item without marks and without a
\* usable frame rate does not raise.
C22_AsClaimed ==
    /\ (/\ LoopEntered
        /\ pc = "raised"
        /\ err \in {Some(ErrNoFramerate), Some(ErrUnknownFramerate)}) =>
            TicksReferring(Val(marks), i) # {}
    /\ \A k \in 1..MaxItems :
        (/\ Attempted(k)
         /\ ReachesFramerateCheck(Val(items)[k])
         /\ ~UsableFramerate(Val(items)[k])
         /\ TicksReferring(Val(marks), k - 1) = {}) =>
            ~(pc = "raised" /\ i = k - 1)

\* C23: in every outcome the handle is closed when the call has returned or
\* raised; it is open only between the decoding of the play-item table and
\* that of the mark table, before any iteration of the per-item loop; it is
\* opened by the one step that enters the `with` block, which no later step
\* comes back to; and every step of the loop runs with the handle closed.
C23_HandleScoped ==
    /\ [](Finished => ~fileOpen)
    /\ [](fileOpen => (pc = "marks" /\ i = 0 /\ mpls_items = << >>))
    /\ [][(fileOpen' /\ ~fileOpen) => pc = "open"]_vars
    /\ [][pc' = "open" => pc \in {"start", "open"}]_vars
    /\ [][(i' # i \/ mpls_items' # mpls_items) => (~fileOpen /\ ~fileOpen')]_vars

\* The play-item table was decoded and the mark table is absent: the raise
\* inside the `with` block has left the call, the handle is closed.
C23_Witness ==
    /\ pc = "raised"
    /\ err = Some(ErrNoMarks)
    /\ items # None
    /\ ~fileOpen

\* d ticks at the frame rate fps as frames, computed over the rationals and
\* rounded to the nearest integer; a tie goes to the even integer, up or down.
ExactFrame(d, fps, tie) ==
    LET s == Fraction(d, TicksPerSecond)
        p == Fraction(s[1] * fps[1], s[2] * fps[2])
        q == p[1] \div p[2]
        r == p[1] % p[2]
    IN  IF 2 * r < p[2] THEN q
        ELSE IF 2 * r > p[2] THEN q + 1
        ELSE IF tie = "even" THEN Round(p[1], p[2])
        ELSE IF tie = "up" THEN q + 1
        ELSE q

\* C24 as the specification states it: the chapters of every MplsItem built
\* are the exact values (mark_tick - offset) * num / (45000 * den) rounded to
\* the nearest integer, under one rule for the ties.
C24_AsClaimed ==
    \A k \in 1..Len(mpls_items) :
        LET it == mpls_items[k]
            ts == Timestamps(it.item_marks)
            start == Lowest({Val(it.item_data.intime)} \cup {ts[c] : c \in 1..Len(ts)})
        IN  \E tie \in {"even", "up", "down"} :
                \A c \in 1..Len(ts) :
                    it.chapters[c] = ExactFrame(ts[c] - start, it.framerate, tie)

----------------------------------------------------------------------------
(* Properties of the episode parsers and of the search below symbolic links *)

\* C25 as the specification states it: for an episode n of a ParseBD,
\* get_chapter(n) returns the chapters of the playlist item n, and the clip
\* of that item is the file get_episode(n) indexes, episodes[n - 1].
C25_AsClaimed ==
    (LastCallWas("get_chapter") /\ Val(mcall).args <= Len(episodes)) =>
        LET n == Val(mcall).args
        IN /\ perr = None
           /\ mresult = Some(bd_items[n].chapters)
           /\ bd_items[n].m2ts_file = episodes[n]

C29_AsClaimed ==
    [][(LastCallWas("set_op_ed_ranges")' /\ perr' # None) =>
           UNCHANGED <<op_ranges, ed_ranges>>]_vars

\* C30 as the specification states it: where symbolic links close a cycle
\* below root_dir, the search of from_path lists no directory twice.
C30_AsClaimed ==
    \A a, b \in 1..Len(listed) : a # b => listed[a] # listed[b]

====
